---- MODULE Spec2Model ----
(***************************************************************************)
(* Model of the append-only archive merge of the LCF civic summaries       *)
(* tracker (src/utils/append_to_archive.py).                               *)
(*                                                                         *)
(* Python strings are sequences of one-character strings, so that strip,   *)
(* lower, replace, string comparison and ISO date parsing are computed     *)
(* character by character.  A Python dict is a function; a key that is     *)
(* absent from the dict is absent from the function's DOMAIN.              *)
(***************************************************************************)
EXTENDS Integers, Sequences, FiniteSets, TLC

VARIABLES
    batchFile,          \* document_summaries.json
    archiveFile,        \* historical_summaries_2025/historical_summaries_2025.json
    statsFile,          \* historical_summaries_2025/archive_stats.json
    monthFiles,         \* historical_summaries_2025/month_<slug>.json, by file name
    combinedFile,       \* combined_website_data.json
    clock,              \* the date datetime.now() returns
    disk_fails,         \* whether a write to the disk can raise and a batch
                        \* can be malformed
    faults,             \* the number of writes that have raised
    handed,             \* the number of records the summarizer has handed over
    op,                 \* "main" when main has just returned, "raised" when an
                        \* exception has left it, "idle" before its first run,
                        \* the name of a function called on its own
    current_summaries,  \* main: the batch as load_current_summaries returned it
    load_ok,            \* main: load_historical_archive read the file without error
    historical_archive, \* main: the in-memory archive after append_to_archive
    new_docs,           \* main: new_documents_added as returned by append_to_archive
    updated_bodies,     \* main: updated_bodies as returned by append_to_archive
    result,             \* main: its return value
    dup_call,           \* a call of is_duplicate_document on its own: arguments and result
    cycles,             \* two runs of main at the same time: where each one is
                        \* and what it holds
    retry,              \* scheduler.py: a call of a function wrapped by
                        \* retry_on_failure
    job,                \* scheduler.py: the scheduler and its weekly job
    summ                \* summarize_all_meetings.py: a run of
                        \* summarize_all_documents

vars == <<batchFile, archiveFile, statsFile, monthFiles, combinedFile, clock,
          disk_fails, faults, handed, op, current_summaries, load_ok, historical_archive,
          new_docs, updated_bodies, result, dup_call, cycles, retry, job, summ>>

----------------------------------------------------------------------------
(* Characters and strings *)

\* the characters in use, in code point order
Alphabet ==
    <<"\t", "\n", " ", "+", "-", ".", "/",
      "0","1","2","3","4","5","6","7","8","9", ":",
      "A","B","C","D","E","F","G","H","I","J","K","L","M",
      "N","O","P","Q","R","S","T","U","V","W","X","Y","Z", "_",
      "a","b","c","d","e","f","g","h","i","j","k","l","m",
      "n","o","p","q","r","s","t","u","v","w","x","y","z">>

OrdTable == [c \in {Alphabet[i] : i \in 1..Len(Alphabet)} |->
                CHOOSE i \in 1..Len(Alphabet) : Alphabet[i] = c]

\* ord(c)
Ord(c) == OrdTable[c]

Upper == <<"A","B","C","D","E","F","G","H","I","J","K","L","M",
           "N","O","P","Q","R","S","T","U","V","W","X","Y","Z">>

Lowercase == <<"a","b","c","d","e","f","g","h","i","j","k","l","m",
               "n","o","p","q","r","s","t","u","v","w","x","y","z">>

Digits == <<"0","1","2","3","4","5","6","7","8","9">>

IsSpace(c) == c \in {" ", "\t", "\n"}

IsDigit(c) == \E i \in 1..Len(Digits) : Digits[i] = c

DigitVal(c) == (CHOOSE i \in 1..Len(Digits) : Digits[i] = c) - 1

\* str < str: lexicographic by code point, a proper prefix is smaller
RECURSIVE StrLess(_, _)
StrLess(a, b) ==
    IF b = <<>> THEN FALSE
    ELSE IF a = <<>> THEN TRUE
    ELSE IF a[1] = b[1] THEN StrLess(Tail(a), Tail(b))
    ELSE Ord(a[1]) < Ord(b[1])

RECURSIVE LStrip(_)
LStrip(s) == IF s # <<>> /\ IsSpace(s[1]) THEN LStrip(Tail(s)) ELSE s

RECURSIVE RStrip(_)
RStrip(s) ==
    IF s # <<>> /\ IsSpace(s[Len(s)]) THEN RStrip(SubSeq(s, 1, Len(s) - 1)) ELSE s

\* str.strip()
Strip(s) == RStrip(LStrip(s))

LowerTable == [c \in {Upper[i] : i \in 1..Len(Upper)} |->
                  Lowercase[CHOOSE i \in 1..Len(Upper) : Upper[i] = c]]

LowerChar(c) == IF c \in DOMAIN LowerTable THEN LowerTable[c] ELSE c

\* str.lower()
Lower(s) == [i \in 1..Len(s) |-> LowerChar(s[i])]

\* str.replace(old, new) for a one-character old
RECURSIVE Replace(_, _, _)
Replace(s, old, new) ==
    IF s = <<>> THEN <<>>
    ELSE (IF s[1] = old THEN new ELSE <<s[1]>>) \o Replace(Tail(s), old, new)

\* a number as exactly n decimal digits
RECURSIVE ZeroPad(_, _)
ZeroPad(v, n) ==
    IF n = 0 THEN <<>> ELSE ZeroPad(v \div 10, n - 1) \o <<Digits[(v % 10) + 1]>>

\* the value of a string of decimal digits
RECURSIVE DecVal(_)
DecVal(s) ==
    IF s = <<>> THEN 0 ELSE 10 * DecVal(SubSeq(s, 1, Len(s) - 1)) + DigitVal(s[Len(s)])

AllDigits(s) == \A i \in 1..Len(s) : IsDigit(s[i])

----------------------------------------------------------------------------
(* Dicts *)

EmptyDict == [k \in {} |-> <<>>]

\* d.get(k, dflt)
Get(d, k, dflt) == IF k \in DOMAIN d THEN d[k] ELSE dflt

\* d[k] = v
Put(d, k, v) == [f \in (DOMAIN d) \cup {k} |-> IF f = k THEN v ELSE d[f]]

----------------------------------------------------------------------------
(* Dates *)

MonthNames ==
    << <<"J","a","n","u","a","r","y">>, <<"F","e","b","r","u","a","r","y">>,
       <<"M","a","r","c","h">>, <<"A","p","r","i","l">>, <<"M","a","y">>,
       <<"J","u","n","e">>, <<"J","u","l","y">>, <<"A","u","g","u","s","t">>,
       <<"S","e","p","t","e","m","b","e","r">>, <<"O","c","t","o","b","e","r">>,
       <<"N","o","v","e","m","b","e","r">>, <<"D","e","c","e","m","b","e","r">> >>

IsLeap(y) == (y % 4 = 0 /\ y % 100 # 0) \/ y % 400 = 0

DaysInMonth(y, m) ==
    IF m = 2 THEN (IF IsLeap(y) THEN 29 ELSE 28)
    ELSE IF m \in {4, 6, 9, 11} THEN 30 ELSE 31

\* datetime.fromisoformat on a date-only string YYYY-MM-DD; every other
\* string of the input domain is rejected (ValueError)
fromisoformat(s) ==
    IF /\ Len(s) = 10
       /\ s[5] = "-" /\ s[8] = "-"
       /\ AllDigits(SubSeq(s, 1, 4)) /\ AllDigits(SubSeq(s, 6, 7))
       /\ AllDigits(SubSeq(s, 9, 10))
    THEN LET y == DecVal(SubSeq(s, 1, 4))
             m == DecVal(SubSeq(s, 6, 7))
             d == DecVal(SubSeq(s, 9, 10))
         IN  IF y >= 1 /\ m \in 1..12 /\ d >= 1 /\ d <= DaysInMonth(y, m)
             THEN [ok |-> TRUE, year |-> y, month |-> m, day |-> d]
             ELSE [ok |-> FALSE, year |-> 0, month |-> 0, day |-> 0]
    ELSE [ok |-> FALSE, year |-> 0, month |-> 0, day |-> 0]

\* strftime('%B %Y')
strftime_B_Y(dt) == MonthNames[dt.month] \o <<" ">> \o ZeroPad(dt.year, 4)

\* datetime.isoformat(), the time of day left out
isoformat(dt) ==
    ZeroPad(dt.year, 4) \o <<"-">> \o ZeroPad(dt.month, 2) \o <<"-">> \o ZeroPad(dt.day, 2)

----------------------------------------------------------------------------
(* Dedup Matcher *)

\* a variant that tests the titles as they are
UntrimmedTitleDateMatch(new_doc, existing_doc) ==
    /\ Get(new_doc, "title", <<>>) = Get(existing_doc, "title", <<>>)
    /\ Get(new_doc, "date", <<>>) = Get(existing_doc, "date", <<>>)

\* a variant that tests the title alone
TitleMatch(new_doc, existing_doc) ==
    Strip(Get(new_doc, "title", <<>>)) = Strip(Get(existing_doc, "title", <<>>))

\* a variant that takes no record without title and date for a duplicate
NonEmptyTitleDateMatch(new_doc, existing_doc) ==
    /\ Strip(Get(new_doc, "title", <<>>)) = Strip(Get(existing_doc, "title", <<>>))
    /\ Get(new_doc, "date", <<>>) = Get(existing_doc, "date", <<>>)
    /\ (Get(new_doc, "title", <<>>) # <<>> \/ Get(new_doc, "date", <<>>) # <<>>)

\* a variant that matches a candidate only on fields it has
PresentTitleDateMatch(new_doc, existing_doc) ==
    /\ {"title", "date"} \subseteq DOMAIN new_doc
    /\ Strip(new_doc["title"]) = Strip(Get(existing_doc, "title", <<>>))
    /\ new_doc["date"] = Get(existing_doc, "date", <<>>)

\* the title and date test of is_duplicate_document
TitleDateMatch(new_doc, existing_doc) ==
    /\ Strip(Get(new_doc, "title", <<>>)) = Strip(Get(existing_doc, "title", <<>>))
    /\ Get(new_doc, "date", <<>>) = Get(existing_doc, "date", <<>>)

\* the url test of is_duplicate_document
UrlMatch(new_doc, existing_doc) ==
    /\ Get(new_doc, "url", <<>>) # <<>>
    /\ Get(existing_doc, "url", <<>>) # <<>>
    /\ new_doc["url"] = existing_doc["url"]

RECURSIVE is_duplicate_document(_, _)
is_duplicate_document(new_doc, existing_docs) ==
    IF existing_docs = <<>> THEN FALSE
    ELSE IF TitleDateMatch(new_doc, Head(existing_docs)) THEN TRUE
    ELSE IF UrlMatch(new_doc, Head(existing_docs)) THEN TRUE
    ELSE is_duplicate_document(new_doc, Tail(existing_docs))

----------------------------------------------------------------------------
(* Metadata Deriver *)

UrlPrefix == <<"h","t","t","p","s",":","/","/","l","c","f",".","c","a",".","g","o","v","/">>

DefaultDocType == <<"d","o","c","u","m","e","n","t">>

\* the month and year fields, lines 96-103
DeriveMonthYear(archived_doc) ==
    IF "date" \in DOMAIN archived_doc
    THEN LET doc_date == fromisoformat(Replace(archived_doc["date"], "Z",
                                               <<"+","0","0",":","0","0">>))
         IN  IF doc_date.ok
             THEN Put(Put(archived_doc, "month", strftime_B_Y(doc_date)),
                      "year", doc_date.year)
             ELSE Put(Put(archived_doc, "month", strftime_B_Y(clock)),
                      "year", clock.year)
    ELSE archived_doc

\* the placeholder url, lines 107-109
PlaceholderUrl(archived_doc) ==
    LET doc_type == Get(archived_doc, "type", DefaultDocType)
        safe_title == Lower(Replace(Get(archived_doc, "title", <<>>), " ", <<"_">>))
    IN  UrlPrefix \o doc_type \o <<"s", "/">> \o safe_title \o <<".","p","d","f">>

\* the url field, lines 105-109
EnsureUrl(archived_doc) ==
    IF "url" \notin DOMAIN archived_doc \/ archived_doc["url"] = <<>>
    THEN Put(archived_doc, "url", PlaceholderUrl(archived_doc))
    ELSE archived_doc

\* a variant that archives the record under its title in lower case
prepare_with_lower_title(doc, body_name) ==
    EnsureUrl(DeriveMonthYear(
        Put(Put(Put(doc, "title", Lower(Get(doc, "title", <<>>))),
                "archived_date", isoformat(clock)), "historical", TRUE)))

prepare_document_for_archive(doc, body_name) ==
    LET archived_doc == Put(Put(doc, "archived_date", isoformat(clock)),
                            "historical", TRUE)
    IN  EnsureUrl(DeriveMonthYear(archived_doc))

----------------------------------------------------------------------------
(* Archive Merger *)

\* the order in which a dict's keys are visited
BodyOrder == <<"City Council", "Planning Commission">>

Keys(d) == SelectSeq(BodyOrder, LAMBDA b : b \in DOMAIN d)

EmptyBucket == [agendas |-> <<>>, minutes |-> <<>>]

\* the merge's running state st: the archive and the two results

\* a variant that gives the body two empty collections whether it is new
\* or not
EnterEmptiedBody(st, body_name) ==
    [st EXCEPT !.historical_archive = Put(@, body_name, EmptyBucket)]

\* lines 122-124: the body gets its two empty collections when it is new
EnterBody(st, body_name) ==
    IF body_name \notin DOMAIN st.historical_archive
    THEN [st EXCEPT !.historical_archive = Put(@, body_name, EmptyBucket)]
    ELSE st

\* a variant that tests for a duplicate by title and date alone
MergeDocByTitleDate(doc, st, body_name, type) ==
    IF \A i \in 1..Len(st.historical_archive[body_name][type]) :
           ~TitleDateMatch(doc, st.historical_archive[body_name][type][i])
    THEN [st EXCEPT !.historical_archive[body_name][type] =
                        Append(@, prepare_document_for_archive(doc, body_name)),
                    !.new_documents_added = @ + 1,
                    !.updated_bodies = @ \cup {body_name}]
    ELSE st

\* a variant that counts the body as updated for a duplicate too
MergeDocTouchingBody(doc, st, body_name, type) ==
    IF ~is_duplicate_document(doc, st.historical_archive[body_name][type])
    THEN [st EXCEPT !.historical_archive[body_name][type] =
                        Append(@, prepare_document_for_archive(doc, body_name)),
                    !.new_documents_added = @ + 1,
                    !.updated_bodies = @ \cup {body_name}]
    ELSE [st EXCEPT !.updated_bodies = @ \cup {body_name}]

\* one pass of the loop over a collection of the batch, lines 128-135 and
\* 139-146
MergeDoc(doc, st, body_name, type) ==
    IF ~is_duplicate_document(doc, st.historical_archive[body_name][type])
    THEN [st EXCEPT !.historical_archive[body_name][type] =
                        Append(@, prepare_document_for_archive(doc, body_name)),
                    !.new_documents_added = @ + 1,
                    !.updated_bodies = @ \cup {body_name}]
    ELSE st

\* one of the two loops over a body's documents, lines 127-135 and 138-146
RECURSIVE MergeDocs(_, _, _, _)
MergeDocs(docs, st, body_name, type) ==
    IF docs = <<>> THEN st
    ELSE MergeDocs(Tail(docs), MergeDoc(Head(docs), st, body_name, type), body_name, type)

\* the body of the loop over the batch's bodies, lines 121-146
MergeBody(body_name, body_data, st) ==
    MergeDocs(Get(body_data, "minutes", <<>>),
              MergeDocs(Get(body_data, "agendas", <<>>),
                        EnterBody(st, body_name), body_name, "agendas"),
              body_name, "minutes")

\* the loop over the batch's bodies, line 120
RECURSIVE MergeBodies(_, _, _)
MergeBodies(names, current, st) ==
    IF names = <<>> THEN st
    ELSE MergeBodies(Tail(names), current,
                     MergeBody(Head(names), current[Head(names)], st))

append_to_archive(current, historical) ==
    MergeBodies(Keys(current), current,
                [historical_archive |-> historical,
                 new_documents_added |-> 0,
                 updated_bodies |-> {}])

----------------------------------------------------------------------------
(* Sort Stage *)

SortKey(x) == Get(x, "date", <<>>)

\* a variant that puts x behind every element whose key is not larger
\* than its own
RECURSIVE InsertAsc(_, _)
InsertAsc(sorted, x) ==
    IF sorted = <<>> THEN <<x>>
    ELSE IF StrLess(SortKey(x), SortKey(Head(sorted))) THEN <<x>> \o sorted
    ELSE <<Head(sorted)>> \o InsertAsc(Tail(sorted), x)

\* x goes behind every element whose key is not smaller than its own
RECURSIVE InsertDesc(_, _)
InsertDesc(sorted, x) ==
    IF sorted = <<>> THEN <<x>>
    ELSE IF StrLess(SortKey(Head(sorted)), SortKey(x)) THEN <<x>> \o sorted
    ELSE <<Head(sorted)>> \o InsertDesc(Tail(sorted), x)

\* list.sort(key = date, reverse = True): stable, largest key first
RECURSIVE SortDescFrom(_, _)
SortDescFrom(sorted, docs) ==
    IF docs = <<>> THEN sorted
    ELSE SortDescFrom(InsertDesc(sorted, Head(docs)), Tail(docs))

SortDesc(docs) == SortDescFrom(<<>>, docs)

sort_archive_documents(historical) ==
    [b \in DOMAIN historical |->
        Put(Put(historical[b], "agendas", SortDesc(historical[b]["agendas"])),
            "minutes", SortDesc(historical[b]["minutes"]))]

----------------------------------------------------------------------------
(* Statistics Aggregator *)

\* the documents of one body, its agendas first
BodyDocs(body_data) == Get(body_data, "agendas", <<>>) \o Get(body_data, "minutes", <<>>)

RECURSIVE DocsOf(_, _)
DocsOf(names, historical) ==
    IF names = <<>> THEN <<>>
    ELSE BodyDocs(historical[Head(names)]) \o DocsOf(Tail(names), historical)

\* every document in the order the loops over the archive visit them
AllDocs(historical) == DocsOf(Keys(historical), historical)

\* str(n) for n >= 0
RECURSIVE StrInt(_)
StrInt(n) == IF n < 10 THEN <<Digits[n + 1]>> ELSE StrInt(n \div 10) \o <<Digits[(n % 10) + 1]>>

\* sorted(list(strings))
RECURSIVE Sorted(_)
Sorted(strings) ==
    IF strings = {} THEN <<>>
    ELSE LET least == CHOOSE x \in strings : \A y \in strings : ~StrLess(y, x)
         IN  <<least>> \o Sorted(strings \ {least})

Count(docs, Test(_)) == Len(SelectSeq(docs, Test))

\* a variant that asks whether the record has the field
HasAiGenerated(doc) == "ai_generated" \in DOMAIN doc

\* lines 219 and 232
AiGenerated(doc) == Get(doc, "ai_generated", FALSE)

calculate_archive_stats(historical) ==
    LET docs == AllDocs(historical)
        agendas == DocsOf(Keys(historical),
                          [b \in DOMAIN historical |->
                              [agendas |-> Get(historical[b], "agendas", <<>>)]])
        minutes == DocsOf(Keys(historical),
                          [b \in DOMAIN historical |->
                              [minutes |-> Get(historical[b], "minutes", <<>>)]])
    IN  [last_updated |-> isoformat(clock),
         total_government_bodies |-> Cardinality(DOMAIN historical),
         total_documents |-> Len(agendas) + Len(minutes),
         total_agendas |-> Len(agendas),
         total_minutes |-> Len(minutes),
         ai_generated_count |-> Count(docs, AiGenerated),
         months_covered |->
             Sorted({docs[i]["month"] : i \in {j \in 1..Len(docs) : "month" \in DOMAIN docs[j]}}),
         years_covered |->
             Sorted({StrInt(docs[i]["year"]) :
                        i \in {j \in 1..Len(docs) : "year" \in DOMAIN docs[j]}}),
         government_bodies |-> Keys(historical)]

----------------------------------------------------------------------------
(* Monthly Partitioner *)

Unknown == <<"U","n","k","n","o","w","n">>

\* a variant that files every record under the default
MonthUnknown(doc) == Unknown

\* line 254
MonthOf(doc) == Get(doc, "month", Unknown)

\* monthly_data as built by the grouping loop, lines 248-259
MonthlyData(historical) ==
    LET docs == AllDocs(historical)
        months == {MonthOf(docs[i]) : i \in 1..Len(docs)}
        InMonth(m, seq) == SelectSeq(seq, LAMBDA d : MonthOf(d) = m)
    IN  [m \in months |->
            [b \in {c \in DOMAIN historical : InMonth(m, BodyDocs(historical[c])) # <<>>} |->
                [agendas |-> InMonth(m, Get(historical[b], "agendas", <<>>)),
                 minutes |-> InMonth(m, Get(historical[b], "minutes", <<>>))]]]

\* the name of a month's file, lines 263-264
MonthFileName(month) ==
    <<"m","o","n","t","h","_">> \o Lower(Replace(month, " ", <<"_">>))
        \o <<".","j","s","o","n">>

----------------------------------------------------------------------------
(* Files *)

NoFile == [state |-> "absent", data |-> EmptyDict]

\* a file cut short by a failed write: json.load raises on it
Garbled == [state |-> "corrupt", data |-> EmptyDict]

FileOf(value) == [state |-> "ok", data |-> value]

\* the files create_monthly_files writes when no write fails, by name
MonthlyWrites(historical) ==
    LET data == MonthlyData(historical)
    IN  [f \in {MonthFileName(m) : m \in DOMAIN data} |->
            FileOf(data[CHOOSE m \in DOMAIN data : MonthFileName(m) = f])]

\* files overwritten by the files of writes
Overwrite(files, writes) ==
    [f \in (DOMAIN files) \cup (DOMAIN writes) |->
        IF f \in DOMAIN writes THEN writes[f] ELSE files[f]]

\* a write that raised: open() failed and the file is as it was, or the
\* dump stopped part-way and the file is cut short
FailedWrite(file) == {file, Garbled}

----------------------------------------------------------------------------
(* Document Store access and the merge entry point *)

\* load_current_summaries: the file's mapping, {} when the file is absent
\* or reading it raises
load_current_summaries(read_error) ==
    IF batchFile.state = "ok" /\ ~read_error THEN batchFile.data ELSE EmptyDict

\* a variant that finds no archive
load_no_archive(read_error) == [ok |-> TRUE, data |-> EmptyDict]

\* load_historical_archive: the file's mapping, {} when the file is absent
\* or reading it raises (ok tells the two apart)
load_historical_archive(read_error) ==
    IF archiveFile.state = "absent" THEN [ok |-> TRUE, data |-> EmptyDict]
    ELSE IF archiveFile.state = "ok" /\ ~read_error
         THEN [ok |-> TRUE, data |-> archiveFile.data]
         ELSE [ok |-> FALSE, data |-> EmptyDict]

MaxFaults == 1

\* the disk raises at most MaxFaults times
CanRaise == disk_fails /\ faults < MaxFaults

\* the outcomes of a step that writes: the one in which no write raises
\* and, on a disk that can fail, those in which one does
Outcomes(succeeds, fails) ==
    IF CanRaise THEN {succeeds} \cup fails ELSE {succeeds}

\* save_updated_archive: what the three writes leave on disk and the value
\* returned, for every place at which a write can raise
save_updated_archive(historical) ==
    LET sorted == sort_archive_documents(historical)
        stats == calculate_archive_stats(sorted)
        writes == MonthlyWrites(sorted)
    IN  Outcomes(
            [ok |-> TRUE, raised |-> 0,
             archiveFile |-> FileOf(sorted), statsFile |-> FileOf(stats),
             monthFiles |-> Overwrite(monthFiles, writes)],
                 {[ok |-> FALSE, raised |-> 1, archiveFile |-> a, statsFile |-> statsFile,
                   monthFiles |-> monthFiles] : a \in FailedWrite(archiveFile)}
            \cup {[ok |-> FALSE, raised |-> 1, archiveFile |-> FileOf(sorted), statsFile |-> st,
                   monthFiles |-> monthFiles] : st \in FailedWrite(statsFile)}
            \cup UNION {UNION {
                     {[ok |-> FALSE, raised |-> 1, archiveFile |-> FileOf(sorted),
                       statsFile |-> FileOf(stats),
                       monthFiles |->
                           Overwrite(monthFiles,
                               [g \in written \cup (IF x = NoFile THEN {} ELSE {f}) |->
                                   IF g = f THEN x ELSE writes[g]])] :
                      x \in FailedWrite(Get(monthFiles, f, NoFile))} :
                     written \in SUBSET ((DOMAIN writes) \ {f})} :
                   f \in DOMAIN writes})

\* update_website_data: the combined file rewritten, or left by a failed write
update_website_data(historical) ==
    Outcomes([ok |-> TRUE, raised |-> 0,
              combinedFile |-> FileOf([website_data |-> EmptyDict,
                                       historical_archive |-> historical,
                                       last_updated |-> isoformat(clock),
                                       archive_enabled |-> TRUE])],
             {[ok |-> FALSE, raised |-> 1, combinedFile |-> c] :
                 c \in FailedWrite(combinedFile)})

\* the values main's local variables hold while main is not running
NoLocals ==
    /\ load_ok' = TRUE
    /\ historical_archive' = EmptyDict
    /\ new_docs' = 0
    /\ updated_bodies' = {}
    /\ result' = TRUE

\* a variant that takes the empty batch for a merge and saves
MainSavesNoBatch ==
    /\ current_summaries' = EmptyDict
    /\ NoLocals
    /\ archiveFile' = FileOf(EmptyDict)
    /\ statsFile' = FileOf(calculate_archive_stats(EmptyDict))
    /\ UNCHANGED <<monthFiles, combinedFile, faults>>

\* main, lines 306-310: nothing to append
MainNoBatch ==
    /\ current_summaries' = EmptyDict
    /\ NoLocals
    /\ UNCHANGED <<archiveFile, statsFile, monthFiles, combinedFile, faults>>

\* main, lines 312-335: load, append, save
MainMerge ==
    /\ current_summaries' # EmptyDict
    /\ \E read_error \in BOOLEAN :
         LET loaded == load_historical_archive(read_error)
             merged == append_to_archive(current_summaries', loaded.data)
             sorted == sort_archive_documents(merged.historical_archive)
         IN  /\ load_ok' = loaded.ok
             /\ new_docs' = merged.new_documents_added
             /\ updated_bodies' = merged.updated_bodies
             /\ IF merged.new_documents_added > 0
                THEN \E saved \in save_updated_archive(merged.historical_archive) :
                        /\ historical_archive' = sorted
                        /\ archiveFile' = saved.archiveFile
                        /\ statsFile' = saved.statsFile
                        /\ monthFiles' = saved.monthFiles
                        /\ result' = saved.ok
                        /\ IF saved.ok
                           THEN \E web \in update_website_data(sorted) :
                                    /\ combinedFile' = web.combinedFile
                                    /\ faults' = faults + web.raised
                           ELSE /\ faults' = faults + saved.raised
                                /\ UNCHANGED combinedFile
                ELSE /\ historical_archive' = merged.historical_archive
                     /\ result' = TRUE
                     /\ UNCHANGED <<archiveFile, statsFile, monthFiles, combinedFile,
                                    faults>>

\* main from line 308 on, the batch loaded
MainFrom(loaded_batch) ==
    /\ current_summaries' = loaded_batch
    /\ op' = "main"
    /\ UNCHANGED <<clock, disk_fails, dup_call, cycles>>
    /\ (MainNoBatch \/ MainMerge)

\* a variant that lets the exception leave main
MainPropagates == op' = "raised" /\ UNCHANGED result

\* main, lines 337-339: an exception raised in main is logged and main
\* returns False
MainExcept == op' = "main" /\ result' = FALSE

\* main, line 304: the constructor raised (os.makedirs, line 36)
MainRaised ==
    /\ faults' = faults + 1
    /\ current_summaries' = EmptyDict
    /\ load_ok' = TRUE
    /\ historical_archive' = EmptyDict
    /\ new_docs' = 0
    /\ updated_bodies' = {}
    /\ UNCHANGED <<archiveFile, statsFile, monthFiles, combinedFile, clock, disk_fails,
                   dup_call, cycles>>
    /\ MainExcept

\* the value json.load gives for null
None == [null |-> TRUE]

\* line 127: body_data.get raises AttributeError when the body's data is
\* not an object
MergeRaises(current) == \E body_name \in DOMAIN current : current[body_name] = None

\* main, lines 307-318 and 337-339: the batch is loaded, the archive is
\* loaded, the body is entered (line 123) and line 127 raises; the bodies of
\* a batch before the malformed one are merged in memory only
MainMergeRaised(loaded_batch) ==
    /\ current_summaries' = loaded_batch
    /\ \E read_error \in BOOLEAN :
         \E loaded \in {load_historical_archive(read_error)} :
             /\ load_ok' = loaded.ok
             /\ historical_archive' =
                    EnterBody([historical_archive |-> loaded.data,
                               new_documents_added |-> 0, updated_bodies |-> {}],
                              CHOOSE body_name \in DOMAIN loaded_batch :
                                  loaded_batch[body_name] = None).historical_archive
    /\ new_docs' = 0
    /\ updated_bodies' = {}
    /\ UNCHANGED <<archiveFile, statsFile, monthFiles, combinedFile, faults, clock,
                   disk_fails, dup_call, cycles>>
    /\ MainExcept

\* main from line 304 on: the constructor, then the rest
MainRun(loaded_batch) ==
    \E raises \in (IF CanRaise THEN BOOLEAN ELSE {FALSE}) :
        IF raises THEN MainRaised
        ELSE IF MergeRaises(loaded_batch) THEN MainMergeRaised(loaded_batch)
        ELSE MainFrom(loaded_batch)

\* main run on the batch file as it stands
main ==
    /\ UNCHANGED <<batchFile, handed, retry, job, summ>>
    /\ \E read_error \in BOOLEAN : MainRun(load_current_summaries(read_error))

----------------------------------------------------------------------------
(* The environment: the summarizer's batches and the clock *)

MaxDocs == 3

MaxFaultDocs == 1

\* the number of records the summarizer hands over at most, fewer on a disk
\* that can raise
Budget == IF disk_fails THEN MaxFaultDocs ELSE MaxDocs

S == <<"S">>

Jan1 == <<"2","0","2","5","-","0","1","-","0","1">>

Feb1 == <<"2","0","2","5","-","0","2","-","0","1">>

Feb15 == <<"2","0","2","5","-","0","2","-","1","5">>

UrlAB == <<"h","t","t","p","s",":","/","/","a","/","b",".","p","d","f">>

UrlCD == <<"h","t","t","p","s",":","/","/","c","/","d",".","p","d","f">>

PCAgenda == <<"P","C"," ","A","g","e","n","d","a">>

PCMinutes == <<"P","C"," ","M","i","n","u","t","e","s">>

CCAgenda == <<"C","C"," ","A","g","e","n","d","a">>

CCMinutes == <<"C","C"," ","M","i","n","u","t","e","s">>

\* the records the summarizer hands over, by body and collection
BatchDocs ==
    [b \in {"City Council", "Planning Commission"} |->
        IF b = "Planning Commission"
        THEN [agendas |->
                { \* the minimal fields, no url yet
                  [title |-> PCAgenda, date |-> Jan1, url |-> <<>>, summary |-> S,
                   ai_generated |-> TRUE],
                  \* the same title on later dates
                  [title |-> PCAgenda, date |-> Feb15, url |-> <<>>, summary |-> S,
                   ai_generated |-> TRUE],
                  [title |-> PCAgenda, date |-> Feb1, summary |-> S,
                   ai_generated |-> FALSE] },
              minutes |->
                { [title |-> PCMinutes, date |-> Jan1, url |-> UrlAB, summary |-> S,
                   ai_generated |-> TRUE],
                  \* another title and date under the same url
                  [title |-> Lower(PCMinutes), date |-> Feb1, url |-> UrlAB,
                   summary |-> S, ai_generated |-> FALSE],
                  \* the first record once more, its title padded and under
                  \* another url
                  [title |-> PCMinutes \o <<" ">>, date |-> Jan1, url |-> UrlCD,
                   summary |-> S, ai_generated |-> TRUE] }]
        ELSE [agendas |->
                { \* no date and no url
                  [title |-> CCAgenda, summary |-> S, ai_generated |-> FALSE] },
              minutes |->
                { \* a date that is no ISO date
                  [title |-> CCMinutes, date |-> <<"T","B","D">>, url |-> <<>>,
                   summary |-> S, ai_generated |-> TRUE] }]]

Bodies == DOMAIN BatchDocs

\* a record of BatchDocs and the place it goes to
Placements ==
    {[body |-> b, type |-> t, doc |-> d] :
        b \in Bodies, t \in {"agendas", "minutes"},
        d \in BatchDocs["City Council"]["agendas"] \cup BatchDocs["City Council"]["minutes"]
              \cup BatchDocs["Planning Commission"]["agendas"]
              \cup BatchDocs["Planning Commission"]["minutes"]}

Placed == {p \in Placements : p.doc \in BatchDocs[p.body][p.type]}

\* the batch of one record
Batch1(p) == [b \in {p.body} |-> Put(EmptyBucket, p.type, <<p.doc>>)]

\* the batch of two records, p before q
Batch2(p, q) ==
    [b \in {p.body, q.body} |->
        [t \in {"agendas", "minutes"} |->
            (IF p.body = b /\ p.type = t THEN <<p.doc>> ELSE <<>>)
                \o (IF q.body = b /\ q.type = t THEN <<q.doc>> ELSE <<>>)]]

\* the batches: no body at all, and one or two records
Batches ==
    {EmptyDict} \cup {Batch1(p) : p \in Placed} \cup {Batch2(p, q) : p \in Placed, q \in Placed}

DocCount(mapping) == Len(AllDocs(mapping))

\* a batch whose body has null for its data
MalformedBatch == [b \in {"Planning Commission"} |-> None]

\* the batches the summarizer can write: the malformed one when things fail
Handed == Batches \cup (IF disk_fails THEN {MalformedBatch} ELSE {})

\* steps 2 and 4 of run_weekly_processing: the summarizer writes the next
\* batch, then main runs on it
weekly_cycle ==
    \E b \in Handed :
        /\ handed + DocCount(b) <= Budget
        /\ handed' = handed + DocCount(b)
        /\ batchFile' = FileOf(b)
        /\ MainRun(b)
        /\ UNCHANGED <<retry, job, summ>>

\* the date on which the program runs
Today == [year |-> 2025, month |-> 12, day |-> 1]

\* the two runs, neither started
NoCycles ==
    [p \in {1, 2} |->
        [pc |-> "start", current_summaries |-> EmptyDict, historical_archive |-> EmptyDict,
         new_docs |-> 0, began_after |-> {}, ended_after |-> {}]]

\* no call of a wrapped function
NoRetry ==
    [pc |-> "idle", max_retries |-> 0, delay |-> 0, attempt |-> 0, calls |-> <<>>,
     waits |-> <<>>, alerts |-> 0, returned |-> None, error |-> "none"]

\* the scheduler not started
NoJob == [pc |-> "idle"]

\* no run of the summarizer
NoSumm == [pc |-> "idle"]

\* nothing of scheduler.py and of the summarizer runs
NoScheduler == retry = NoRetry /\ job = NoJob /\ summ = NoSumm

InitFiles ==
    /\ batchFile = NoFile
    /\ archiveFile = NoFile
    /\ statsFile = NoFile
    /\ monthFiles = EmptyDict
    /\ combinedFile = NoFile
    /\ clock = Today
    /\ handed = 0
    /\ faults = 0
    /\ op = "idle"
    /\ current_summaries = EmptyDict
    /\ load_ok = TRUE
    /\ historical_archive = EmptyDict
    /\ new_docs = 0
    /\ updated_bodies = {}
    /\ result = TRUE
    /\ cycles = NoCycles

\* no call of is_duplicate_document on its own
NoCall == [new_doc |-> EmptyDict, existing_docs |-> <<>>, done |-> FALSE, returned |-> FALSE]

\* the disk takes every write
Init == InitFiles /\ disk_fails = FALSE /\ dup_call = NoCall /\ NoScheduler

Next == weekly_cycle \/ main

Spec == Init /\ [][Next]_vars

\* the disk can raise
InitFaults == InitFiles /\ disk_fails = TRUE /\ dup_call = NoCall /\ NoScheduler

SpecFaults == InitFaults /\ [][Next]_vars

----------------------------------------------------------------------------
(* is_duplicate_document called on its own *)

MaxExisting == 2

AB == <<"A"," ","b">>

Jun1 == <<"2","0","2","5","-","0","6","-","0","1">>

\* a title as it is, padded, in another case, with more inner whitespace
\* and with punctuation
DupTitles ==
    {<<>>, AB, <<" ">> \o AB \o <<"\n">>, Lower(AB), <<"A"," "," ","b">>, AB \o <<".">>}

\* a date as it is and in another format
DupDates == {<<>>, Jun1, <<"0","6","/","0","1","/","2","0","2","5">>}

DupUrls == {<<>>, UrlAB, UrlCD}

\* the candidates: every choice of the three fields, each present or absent
DupDocs ==
    {[f \in fields |-> [title |-> t, date |-> d, url |-> u][f]] :
        t \in DupTitles, d \in DupDates, u \in DupUrls,
        fields \in {{"title", "date", "url"}, {"title", "date"}, {"title", "url"},
                    {"url"}, {}}}

\* the records a collection can hold
ExistingDocs ==
    {[title |-> AB, date |-> Jun1, url |-> <<>>],
     [title |-> <<"\t">> \o AB, date |-> <<"0","6","/","0","1","/","2","0","2","5">>,
      url |-> UrlAB],
     [title |-> Lower(AB), date |-> Jun1],
     [url |-> UrlCD],
     [title |-> AB \o <<".">>, date |-> <<>>, url |-> UrlAB],
     [title |-> <<>>, date |-> Jun1, url |-> <<>>]}

ExistingLists == UNION {[1..n -> ExistingDocs] : n \in 0..MaxExisting}

DupCalls ==
    {[new_doc |-> d, existing_docs |-> l, done |-> FALSE, returned |-> FALSE] :
        d \in DupDocs, l \in ExistingLists}

CallIsDuplicate ==
    /\ ~dup_call.done
    /\ dup_call' = [dup_call EXCEPT
                       !.done = TRUE,
                       !.returned = is_duplicate_document(dup_call.new_doc,
                                                          dup_call.existing_docs)]
    /\ UNCHANGED <<batchFile, archiveFile, statsFile, monthFiles, combinedFile, clock,
                   disk_fails, faults, handed, op, current_summaries, load_ok,
                   historical_archive, new_docs, updated_bodies, result, cycles, retry,
                   job, summ>>

InitDup == InitFiles /\ disk_fails = FALSE /\ dup_call \in DupCalls /\ NoScheduler

NextDup == CallIsDuplicate

SpecDup == InitDup /\ [][NextDup]_vars

----------------------------------------------------------------------------
(* Two runs of main at the same time, as the scheduler and a manual trigger
   start them: nothing in main or in update_historical_archive takes a lock *)

\* the batches of one record
RaceBatches == {Batch1(p) : p \in Placed}

Done == {q \in DOMAIN cycles : cycles[q].pc = "done"}

\* main, lines 307-313, in run p: the summarizer has written the batch; the
\* run loads it and loads the archive
CycleLoad(p) ==
    /\ cycles[p].pc = "start"
    /\ \E b \in RaceBatches :
          /\ batchFile' = FileOf(b)
          /\ cycles' = [cycles EXCEPT ![p] =
                           [pc |-> "loaded",
                            current_summaries |-> b,
                            historical_archive |-> load_historical_archive(FALSE).data,
                            new_docs |-> 0,
                            began_after |-> Done,
                            ended_after |-> {}]]
    /\ UNCHANGED <<archiveFile, statsFile, monthFiles, combinedFile, clock, disk_fails,
                   faults, handed, op, current_summaries, load_ok, historical_archive,
                   new_docs, updated_bodies, result, dup_call, retry, job, summ>>

\* main, lines 316-335, in run p: the run merges its batch into the archive
\* it loaded and saves the whole result
CycleSave(p) ==
    /\ cycles[p].pc = "loaded"
    /\ \E merged \in {append_to_archive(cycles[p].current_summaries,
                                       cycles[p].historical_archive)} :
          IF merged.new_documents_added > 0
          THEN \E saved \in save_updated_archive(merged.historical_archive) :
               \E web \in update_website_data(saved.archiveFile.data) :
                  /\ archiveFile' = saved.archiveFile
                  /\ statsFile' = saved.statsFile
                  /\ monthFiles' = saved.monthFiles
                  /\ combinedFile' = web.combinedFile
                  /\ cycles' = [cycles EXCEPT ![p].pc = "done",
                                              ![p].historical_archive = saved.archiveFile.data,
                                              ![p].new_docs = merged.new_documents_added,
                                              ![p].ended_after = Done]
          ELSE /\ cycles' = [cycles EXCEPT ![p].pc = "done", ![p].ended_after = Done]
               /\ UNCHANGED <<archiveFile, statsFile, monthFiles, combinedFile>>
    /\ UNCHANGED <<batchFile, clock, disk_fails, faults, handed, op, current_summaries,
                   load_ok, historical_archive, new_docs, updated_bodies, result, dup_call,
                   retry, job, summ>>

NextRace ==
    \/ \E p \in DOMAIN cycles : CycleLoad(p)
    \/ \E p \in DOMAIN cycles : CycleSave(p)

SpecRace == Init /\ [][NextRace]_vars

----------------------------------------------------------------------------
(* append_to_archive called on its own: the batch and the archive are the
   two files as they stand, the call's results are main's locals *)

MaxBatch == 2

\* the shapes of a batch record: each of title, date and url with a value
\* or absent, every field empty, and a second full record
MergeShapes ==
    {[f \in fields |-> [title |-> AB, date |-> Jun1, url |-> UrlAB][f]] :
        fields \in SUBSET {"title", "date", "url"}}
    \cup {[title |-> <<>>, date |-> <<>>, url |-> <<>>],
          [title |-> Lower(AB), date |-> Jun1, url |-> UrlCD]}

\* the summaries of the records of a batch, by position, and of a record of
\* the archive
Summaries == <<<<"1">>, <<"2">>, <<"3">>, <<"4">>>>

OldSummary == <<"0">>

\* the collections the summarizer can hand over: each record with the
\* summary of its position
MergeLists ==
    UNION {{[i \in 1..n |-> Put(shapes[i], "summary", Summaries[i])] :
               shapes \in [1..n -> MergeShapes]} : n \in 0..MaxBatch}

\* a body's data in the batch: both collections, or one of the keys missing
MergeBuckets ==
    {[agendas |-> docs, minutes |-> <<>>] : docs \in MergeLists}
    \cup {[agendas |-> docs] : docs \in MergeLists}
    \cup {[minutes |-> docs] : docs \in MergeLists}

\* the batches: one body, or a second body with one record of its own
MergeBatches ==
    {[b \in {"Planning Commission"} |-> bucket] : bucket \in MergeBuckets}
    \cup {[b \in {"City Council", "Planning Commission"} |->
              IF b = "Planning Commission" THEN bucket
              ELSE [agendas |-> <<[title |-> CCAgenda, date |-> Jun1, url |-> UrlCD,
                                   summary |-> Summaries[4]]>>,
                    minutes |-> <<>>]] : bucket \in MergeBuckets}

\* a record as an earlier run archived it
Old(doc) ==
    [title |-> doc.title, date |-> doc.date, url |-> doc.url, summary |-> OldSummary,
     archived_date |-> isoformat(Today), historical |-> TRUE,
     month |-> <<"J","u","n","e"," ","2","0","2","5">>, year |-> 2025]

\* the archives: none, a body with a record, a body with a record whose
\* title and date are empty, a body the batch does not name, and a file
\* another program wrote without one of the two keys
MergeArchives ==
    {EmptyDict,
     [b \in {"Planning Commission"} |->
         [agendas |-> <<Old([title |-> AB, date |-> Jun1, url |-> UrlAB])>>,
          minutes |-> <<>>]],
     [b \in {"Planning Commission"} |->
         [agendas |-> <<Old([title |-> <<>>, date |-> <<>>, url |-> UrlCD])>>,
          minutes |-> <<>>]],
     [b \in {"City Council"} |->
         [agendas |-> <<Old([title |-> CCAgenda, date |-> Jun1, url |-> UrlCD])>>,
          minutes |-> <<>>]],
     [b \in {"Planning Commission"} |->
         [minutes |-> <<Old([title |-> AB, date |-> Jun1, url |-> UrlAB])>>]]}

\* lines 128 and 139: historical_archive[body_name]['agendas'] raises
\* KeyError when the body is in the archive without the key and the batch
\* has a record for it
AppendRaises(current, historical) ==
    \E body_name \in (DOMAIN current) \cap (DOMAIN historical) :
        \E type \in {"agendas", "minutes"} :
            /\ Get(current[body_name], type, <<>>) # <<>>
            /\ type \notin DOMAIN historical[body_name]

\* a variant that decorates the record itself
DocDecoratedInPlace(doc, body_name) == prepare_document_for_archive(doc, body_name)

\* line 89: prepare_document_for_archive works on a copy, the record it was
\* given is as it was
DocAfterPrepare(doc, body_name) == doc

\* the records of a collection of the batch after the loop over them,
\* lines 127-135 and 138-146: is_duplicate_document reads the record,
\* prepare_document_for_archive is called on the ones that are no duplicates
RECURSIVE DocsAfter(_, _, _, _)
DocsAfter(docs, st, body_name, type) ==
    IF docs = <<>> THEN <<>>
    ELSE <<IF is_duplicate_document(Head(docs), st.historical_archive[body_name][type])
           THEN Head(docs)
           ELSE DocAfterPrepare(Head(docs), body_name)>>
         \o DocsAfter(Tail(docs), MergeDoc(Head(docs), st, body_name, type),
                      body_name, type)

\* a body's data in the batch after the body of the loop, lines 121-146
BodyAfter(body_name, body_data, st) ==
    [type \in DOMAIN body_data |->
        IF type = "agendas"
        THEN DocsAfter(body_data[type], EnterBody(st, body_name), body_name, type)
        ELSE IF type = "minutes"
        THEN DocsAfter(body_data[type],
                       MergeDocs(Get(body_data, "agendas", <<>>),
                                 EnterBody(st, body_name), body_name, "agendas"),
                       body_name, type)
        ELSE body_data[type]]

\* the batch after the loop over its bodies, line 120
RECURSIVE CurrentAfter(_, _, _)
CurrentAfter(names, current, st) ==
    IF names = <<>> THEN EmptyDict
    ELSE [body_name \in DOMAIN current |->
             IF body_name = Head(names)
             THEN BodyAfter(body_name, current[body_name], st)
             ELSE IF body_name \in {names[i] : i \in 1..Len(names)}
             THEN CurrentAfter(Tail(names), current,
                               MergeBody(Head(names), current[Head(names)], st))[body_name]
             ELSE current[body_name]]

\* main, lines 307-318: the two files are loaded and append_to_archive is
\* called; it returns or raises
CallAppendToArchive ==
    /\ op = "idle"
    /\ IF AppendRaises(batchFile.data, archiveFile.data)
       THEN /\ op' = "append_to_archive raised"
            /\ UNCHANGED <<current_summaries, historical_archive, new_docs,
                           updated_bodies>>
       ELSE \E returned \in {append_to_archive(batchFile.data, archiveFile.data)} :
               /\ op' = "append_to_archive"
               /\ current_summaries' =
                      CurrentAfter(Keys(batchFile.data), batchFile.data,
                                   [historical_archive |-> archiveFile.data,
                                    new_documents_added |-> 0,
                                    updated_bodies |-> {}])
               /\ historical_archive' = returned.historical_archive
               /\ new_docs' = returned.new_documents_added
               /\ updated_bodies' = returned.updated_bodies
    /\ UNCHANGED <<batchFile, archiveFile, statsFile, monthFiles, combinedFile, clock,
                   disk_fails, faults, handed, load_ok, result, dup_call, cycles, retry,
                   job, summ>>

InitMerge ==
    /\ batchFile \in {FileOf(b) : b \in MergeBatches}
    /\ archiveFile \in {FileOf(a) : a \in MergeArchives}
    /\ statsFile = NoFile
    /\ monthFiles = EmptyDict
    /\ combinedFile = NoFile
    /\ clock = Today
    /\ handed = 0
    /\ faults = 0
    /\ op = "idle"
    /\ current_summaries = EmptyDict
    /\ load_ok = TRUE
    /\ historical_archive = EmptyDict
    /\ new_docs = 0
    /\ updated_bodies = {}
    /\ result = TRUE
    /\ cycles = NoCycles
    /\ NoScheduler
    /\ disk_fails = FALSE
    /\ dup_call = NoCall

NextMerge == CallAppendToArchive

SpecMerge == InitMerge /\ [][NextMerge]_vars

----------------------------------------------------------------------------
(* scheduler.py: retry_on_failure *)

\* the variables of the archive's model
archive_vars ==
    <<batchFile, archiveFile, statsFile, monthFiles, combinedFile, clock, disk_fails,
      faults, handed, op, current_summaries, load_ok, historical_archive, new_docs,
      updated_bodies, result, dup_call, cycles>>

\* the files and the clock at the start, nothing of the archive's model run
InitArchive == InitFiles /\ disk_fails = FALSE /\ dup_call = NoCall

MaxRetries == 3

\* the delays the decorator is used with, lines 143, 199 and 226
Delays == {30, 60, 120}

\* a value that is not None
Value(x) == [value |-> x]

\* what one invocation of the wrapped function does: it returns None or
\* another value, or it raises one of two exceptions
FuncOutcomes ==
    {[kind |-> "return", value |-> v, error |-> "none"] : v \in {None, Value("done")}}
    \cup {[kind |-> "raise", value |-> None, error |-> e] :
             e \in {"ConnectionError", "ValueError"}}

\* a variant that waits the same time before every retry
FixedWait(delay, attempt) == delay

\* line 104
WaitTime(delay, attempt) == delay * (2 ^ attempt)

\* one pass of the loop of wrapper, lines 95-106
WrapperAttempt ==
    /\ retry.pc = "loop"
    /\ retry.attempt < retry.max_retries
    /\ \E outcome \in FuncOutcomes :
          retry' =
              IF outcome.kind = "return"
              THEN [retry EXCEPT !.calls = Append(@, outcome),
                                 !.pc = "returned",
                                 !.returned = outcome.value]
              ELSE IF retry.attempt = retry.max_retries - 1
              THEN [retry EXCEPT !.calls = Append(@, outcome),
                                 !.alerts = @ + 1,
                                 !.pc = "raised",
                                 !.error = outcome.error]
              ELSE [retry EXCEPT !.calls = Append(@, outcome),
                                 !.waits = Append(@, WaitTime(retry.delay, retry.attempt)),
                                 !.attempt = @ + 1]
    /\ UNCHANGED <<archive_vars, job, summ>>

\* line 107: the loop is over without a return or a raise
WrapperFallsThrough ==
    /\ retry.pc = "loop"
    /\ retry.attempt >= retry.max_retries
    /\ retry' = [retry EXCEPT !.pc = "returned", !.returned = None]
    /\ UNCHANGED <<archive_vars, job, summ>>

InitRetry ==
    /\ InitArchive
    /\ job = NoJob
    /\ summ = NoSumm
    /\ retry \in {[NoRetry EXCEPT !.pc = "loop", !.max_retries = n, !.delay = d] :
                     n \in 0..MaxRetries, d \in Delays}

NextRetry == WrapperAttempt \/ WrapperFallsThrough

SpecRetry == InitRetry /\ [][NextRetry]_vars

----------------------------------------------------------------------------
(* scheduler.py: the scheduler loop and run_weekly_processing *)

MaxRuns == 2

\* the steps of run_weekly_processing, lines 272-290
StepOrder == <<"fetch", "summarize", "website", "archive", "email">>

\* no step has returned anything
NoResults == [step \in {StepOrder[i] : i \in 1..Len(StepOrder)} |-> None]

\* the scheduler loop of run_scheduler, lines 374-380, before its first job
Waiting ==
    [pc |-> "waiting", runs |-> 0, failures |-> 0, started |-> <<>>, finished |-> <<>>,
     results |-> NoResults, returned |-> None, alerts |-> 0]

\* what the summarizer leaves in document_summaries.json: a record for a
\* body, or a mapping whose value is no object
WeeklyBatches ==
    {Batch1([body |-> "City Council", type |-> "minutes",
             doc |-> [title |-> CCMinutes, date |-> Jun1, url |-> UrlAB, summary |-> S,
                      ai_generated |-> TRUE]]),
     MalformedBatch}

\* the step after a step, "done" after the last
StepAfter(step) ==
    IF step = "fetch" THEN "summarize"
    ELSE IF step = "summarize" THEN "website"
    ELSE IF step = "website" THEN "archive"
    ELSE IF step = "archive" THEN "email"
    ELSE "done"

\* schedule.run_pending starts the job: wrapper of safe_job_execution,
\* lines 115-119, and run_weekly_processing, lines 267-273
JobStart ==
    /\ job.pc = "waiting"
    /\ job.runs < MaxRuns
    /\ job' = [job EXCEPT !.pc = "fetch", !.runs = @ + 1, !.started = <<>>,
                          !.finished = <<>>, !.results = NoResults, !.returned = None]
    /\ UNCHANGED <<archive_vars, retry, summ>>

\* a variant that raises the exception again: run_pending raises it into
\* the loop of run_scheduler, which logs it and raises it, lines 393-397
SafeJobReraises(j) == [j EXCEPT !.pc = "crashed"]

\* lines 129-140: the wrapper of safe_job_execution sends an alert and
\* returns None; the scheduler loop goes on
SafeJobExcept(j) == [j EXCEPT !.pc = "waiting", !.returned = None, !.alerts = @ + 1]

\* a step has raised after its retries: the alert of retry_on_failure, line
\* 101, the alert of run_weekly_processing, lines 313-323, and the
\* exception reaches the wrapper of safe_job_execution
StepRaised(step) ==
    SafeJobExcept([job EXCEPT !.started = Append(@, step),
                              !.failures = @ + 1,
                              !.alerts = @ + 2])

\* a step has returned: the next step is up
StepReturned(step, value) ==
    [job EXCEPT !.started = Append(@, step),
                !.finished = Append(@, step),
                !.results[step] = value,
                !.pc = StepAfter(step)]

\* step 1, line 274: fetch_documents returns what the fetcher's main
\* returned or raises
StepFetch ==
    /\ job.pc = "fetch"
    /\ \E raises \in BOOLEAN : \E value \in {None, Value(TRUE)} :
          job' = IF raises THEN StepRaised("fetch") ELSE StepReturned("fetch", value)
    /\ UNCHANGED <<archive_vars, retry, summ>>

\* step 2, line 278: generate_summaries returns None without an API key,
\* line 176, or the summarizer writes its file and its main returns, or it
\* raises
StepSummarize ==
    /\ job.pc = "summarize"
    /\ \E outcome \in {"no key", "returns", "raises"} :
          IF outcome = "returns"
          THEN /\ \E b \in WeeklyBatches : batchFile' = FileOf(b)
               /\ job' = StepReturned("summarize", Value(TRUE))
          ELSE /\ UNCHANGED batchFile
               /\ job' = IF outcome = "raises" THEN StepRaised("summarize")
                         ELSE StepReturned("summarize", None)
    /\ UNCHANGED <<archiveFile, statsFile, monthFiles, combinedFile, clock, disk_fails,
                   faults, handed, op, current_summaries, load_ok, historical_archive,
                   new_docs, updated_bodies, result, dup_call, cycles, retry, summ>>

\* step 3, line 282: update_website_data returns None when the module is
\* not there, line 243, or what its main returned, or raises
StepWebsite ==
    /\ job.pc = "website"
    /\ \E raises \in BOOLEAN : \E value \in {None, Value(TRUE)} :
          job' = IF raises THEN StepRaised("website") ELSE StepReturned("website", value)
    /\ UNCHANGED <<archive_vars, retry, summ>>

\* step 4, line 286: update_historical_archive returns None when the module
\* is not there, line 262, or runs main of the archive and returns what it
\* returned, line 258
StepArchive ==
    /\ job.pc = "archive"
    /\ \E imported \in BOOLEAN :
          IF imported
          THEN /\ \E read_error \in BOOLEAN : MainRun(load_current_summaries(read_error))
               /\ job' = StepReturned("archive", Value(result'))
          ELSE /\ job' = StepReturned("archive", None)
               /\ UNCHANGED <<archiveFile, statsFile, monthFiles, combinedFile, clock,
                              disk_fails, faults, op, current_summaries, load_ok,
                              historical_archive, new_docs, updated_bodies, result,
                              dup_call, cycles>>
    /\ UNCHANGED <<batchFile, handed, retry, summ>>

\* the value run_weekly_processing returns, lines 301-311
Report(results) ==
    [status |-> "success",
     steps |-> [step \in DOMAIN results |-> results[step] # None]]

\* the end of the job: run_weekly_processing sends an alert and returns its
\* report, lines 292-311, and the wrapper of safe_job_execution sends an
\* alert and returns it, lines 121-127
JobReturns(j) ==
    [j EXCEPT !.pc = "waiting", !.returned = Value(Report(j.results)), !.alerts = @ + 2]

\* step 5, line 290, and the end of the job: send_email_report returns or
\* raises
StepEmail ==
    /\ job.pc = "email"
    /\ \E raises \in BOOLEAN : \E value \in {None, Value(TRUE)} :
          job' = IF raises THEN StepRaised("email")
                 ELSE JobReturns(StepReturned("email", value))
    /\ UNCHANGED <<archive_vars, retry, summ>>

InitWeekly ==
    /\ InitArchive
    /\ retry = NoRetry
    /\ summ = NoSumm
    /\ job = Waiting

NextWeekly ==
    \/ JobStart
    \/ StepFetch
    \/ StepSummarize
    \/ StepWebsite
    \/ StepArchive
    \/ StepEmail

SpecWeekly == InitWeekly /\ [][NextWeekly]_vars

----------------------------------------------------------------------------
(* summarize_all_meetings.py: a run of summarize_all_documents *)

MaxDocuments == 3

MaxApiCalls == 2

\* max_retries of call_openai_api, line 134
ApiRetries == 3

\* an entry of 'documents' in document_metadata.json: an object, or a value
\* without a get method
DocumentKinds == {"object", "string"}

\* what one request to the API does: it answers with a text or with blank
\* text, or it raises, lines 149-196
AttemptOutcomes == {"text", "blank", "rate limit", "timeout", "error"}

\* the loop of call_openai_api from one attempt on, lines 139-198
RECURSIVE ApiAttempt(_, _)
ApiAttempt(outcomes, attempt) ==
    IF attempt >= ApiRetries THEN None
    ELSE IF outcomes[attempt + 1] = "text" THEN Value("text")
    ELSE IF outcomes[attempt + 1] = "blank" THEN Value("")
    ELSE IF outcomes[attempt + 1] \in {"rate limit", "timeout"}
    THEN IF attempt < ApiRetries - 1 THEN ApiAttempt(outcomes, attempt + 1) ELSE None
    ELSE None

\* call_openai_api, lines 134-198
call_openai_api(openai_client, outcomes) ==
    IF ~openai_client THEN None ELSE ApiAttempt(outcomes, 0)

\* the truth value of what call_openai_api returned, line 247
Truthy(v) == v # None /\ v.value # ""

\* lines 326-327: what one summary adds to api_call_count
CountAiGenerated(summary) == IF summary.ai_generated THEN 1 ELSE 0

\* summarize_document, lines 230-277: the summary of one document, with
\* whether call_openai_api was invoked for it and whether the limit of
\* line 237 had been reached
summarize_document(me, doc, api_call_count, outcomes) ==
    IF api_call_count >= me.max_api_calls
    THEN [doc |-> doc, ai_generated |-> FALSE, model_used |-> "fallback",
          invoked |-> FALSE, limit_reached |-> TRUE]
    ELSE IF me.openai_client
    THEN IF Truthy(call_openai_api(me.openai_client, outcomes))
         THEN [doc |-> doc, ai_generated |-> TRUE, model_used |-> "gpt-3.5-turbo",
               invoked |-> TRUE, limit_reached |-> FALSE]
         ELSE [doc |-> doc, ai_generated |-> FALSE, model_used |-> "fallback",
               invoked |-> TRUE, limit_reached |-> FALSE]
    ELSE [doc |-> doc, ai_generated |-> FALSE, model_used |-> "fallback",
          invoked |-> FALSE, limit_reached |-> FALSE]

\* the number of summaries flagged ai_generated, lines 286 and 338
RECURSIVE AiCount(_)
AiCount(summaries) ==
    IF summaries = <<>> THEN 0
    ELSE AiCount(Tail(summaries)) + (IF Head(summaries).ai_generated THEN 1 ELSE 0)

\* save_summaries, lines 283-289: the content of document_summaries.json
SummaryData(summaries) ==
    [total_summaries |-> Len(summaries),
     ai_summaries |-> AiCount(summaries),
     fallback_summaries |-> Len(summaries) - AiCount(summaries),
     summaries |-> summaries]

\* lines 305-317: the documents are loaded; without documents the run is
\* over
SummLoad ==
    /\ summ.pc = "start"
    /\ summ' = IF summ.documents = <<>>
               THEN [summ EXCEPT !.pc = "done",
                                 !.returned = Value(SummaryData(<<>>))]
               ELSE [summ EXCEPT !.pc = "loop"]
    /\ UNCHANGED <<archive_vars, retry, job>>

\* one pass of the loop of lines 320-333: a document that is no object
\* raises at line 232 and is skipped
SummarizeNext ==
    /\ summ.pc = "loop"
    /\ summ.i < Len(summ.documents)
    /\ \E outcomes \in [1..ApiRetries -> AttemptOutcomes] :
          summ' =
              IF summ.documents[summ.i + 1] # "object"
              THEN [summ EXCEPT !.i = @ + 1]
              ELSE [summ EXCEPT
                       !.i = @ + 1,
                       !.summaries =
                           Append(@, summarize_document(summ, summ.i + 1,
                                                        summ.api_call_count, outcomes)),
                       !.api_call_count =
                           @ + CountAiGenerated(
                                   summarize_document(summ, summ.i + 1,
                                                      summ.api_call_count, outcomes))]
    /\ UNCHANGED <<archive_vars, retry, job>>

\* lines 335-353: the summaries are saved, unless the write fails, and the
\* run returns its counts
SummFinish ==
    /\ summ.pc = "loop"
    /\ summ.i >= Len(summ.documents)
    /\ summ' = [summ EXCEPT !.pc = "done",
                            !.returned = Value(SummaryData(summ.summaries))]
    /\ \E write_fails \in BOOLEAN :
          batchFile' = IF write_fails THEN batchFile
                       ELSE FileOf(SummaryData(summ.summaries))
    /\ UNCHANGED <<archiveFile, statsFile, monthFiles, combinedFile, clock, disk_fails,
                   faults, handed, op, current_summaries, load_ok, historical_archive,
                   new_docs, updated_bodies, result, dup_call, cycles, retry, job>>

\* the documents of a run, none to MaxDocuments of them
DocumentLists ==
    UNION {[1..n -> DocumentKinds] : n \in 0..MaxDocuments}

\* a summarizer after __init__, lines 24-50, with MAX_API_CALLS_PER_RUN and
\* with or without a client
InitSumm ==
    /\ InitArchive
    /\ retry = NoRetry
    /\ job = NoJob
    /\ summ \in {[pc |-> "start", max_api_calls |-> m, openai_client |-> c,
                  documents |-> d, i |-> 0, api_call_count |-> 0, summaries |-> <<>>,
                  returned |-> None] :
                    m \in 0..MaxApiCalls, c \in BOOLEAN, d \in DocumentLists}

NextSumm == SummLoad \/ SummarizeNext \/ SummFinish

SpecSumm == InitSumm /\ [][NextSumm]_vars

----------------------------------------------------------------------------
(* The claims *)

\* the collections of an archive, as <<body, type>> pairs
Collections(historical) == (DOMAIN historical) \X {"agendas", "minutes"}

\* the Dedup Matcher's rule between two records: equal trimmed title and
\* equal date, or equal non-empty url; an absent field reads as ""
SameDocument(r, e) ==
    \/ /\ Strip(Get(r, "title", <<>>)) = Strip(Get(e, "title", <<>>))
       /\ Get(r, "date", <<>>) = Get(e, "date", <<>>)
    \/ /\ Get(r, "url", <<>>) # <<>>
       /\ Get(r, "url", <<>>) = Get(e, "url", <<>>)

\* C1: no collection of the persisted archive holds two records that the
\* Dedup Matcher's rule, read on the records as stored, calls duplicates
C1_NoStoredDuplicates ==
    \A c \in Collections(archiveFile.data) :
        LET docs == archiveFile.data[c[1]][c[2]]
        IN  \A i, j \in 1..Len(docs) : i # j => ~SameDocument(docs[i], docs[j])

\* C3: when main has merged a batch, merging the same batch into the
\* resulting archive adds no document, reports no body and leaves the
\* archive as it is
C3_Idempotent ==
    op = "main"
        => \A again \in {append_to_archive(current_summaries, historical_archive)} :
              /\ again.new_documents_added = 0
              /\ again.updated_bodies = {}
              /\ again.historical_archive = historical_archive

\* a first merge of two records into an archive that held one
C3_Witness ==
    /\ op = "main"
    /\ new_docs = 2
    /\ DocCount(current_summaries) = 2
    /\ DocCount(historical_archive) = 3

\* the records of a batch or an archive with their places, as
\* <<body, type, position>> triples
Places(mapping) ==
    UNION {{<<b, t, i>> : i \in 1..Len(Get(mapping[b], t, <<>>))} :
              b \in DOMAIN mapping, t \in {"agendas", "minutes"}}

At(mapping, x) == mapping[x[1]][x[2]][x[3]]

\* the (body, type, title, date) key of a record, an absent field read as ""
KeyOf(mapping, x) ==
    <<x[1], x[2], Get(At(mapping, x), "title", <<>>), Get(At(mapping, x), "date", <<>>)>>

\* the same key with the title trimmed
TrimmedKeyOf(mapping, x) ==
    <<x[1], x[2], Strip(Get(At(mapping, x), "title", <<>>)), Get(At(mapping, x), "date", <<>>)>>

\* the keys of the batch's records differ from each other and from the keys
\* of the archive's records
DisjointKeys(batch, archive) ==
    \A x \in Places(batch) :
        /\ \A y \in Places(batch) \ {x} : KeyOf(batch, y) # KeyOf(batch, x)
        /\ \A y \in Places(archive) : KeyOf(archive, y) # KeyOf(batch, x)

DisjointTrimmedKeys(batch, archive) ==
    \A x \in Places(batch) :
        /\ \A y \in Places(batch) \ {x} : TrimmedKeyOf(batch, y) # TrimmedKeyOf(batch, x)
        /\ \A y \in Places(archive) : TrimmedKeyOf(archive, y) # TrimmedKeyOf(batch, x)

\* the url a record is archived with: its own or, when it has none, the
\* placeholder
ArchivedUrl(doc) == EnsureUrl(doc)["url"]

\* no record of the batch has a url that another record of its body and
\* type, in the batch or in the archive, is archived with
DisjointUrls(batch, archive) ==
    \A x \in Places(batch) :
        Get(At(batch, x), "url", <<>>) # <<>>
            => /\ \A y \in Places(batch) \ {x} :
                      (y[1] = x[1] /\ y[2] = x[2])
                          => ArchivedUrl(At(batch, y)) # At(batch, x)["url"]
               /\ \A y \in Places(archive) :
                      (y[1] = x[1] /\ y[2] = x[2])
                          => Get(At(archive, y), "url", <<>>) # At(batch, x)["url"]

\* C5 as stated, for one merge (the second batch empty): a batch whose
\* records have keys that differ from each other and from the archive's
\* adds as many documents as it holds
C5_AdditiveByKey ==
    [][(current_summaries' # EmptyDict /\ load_ok'
            /\ DisjointKeys(current_summaries', archiveFile.data))
          => DocCount(historical_archive')
                 = DocCount(archiveFile.data) + DocCount(current_summaries')]_vars

\* C5, amended: a batch adds as many documents as it holds when its
\* records' keys, the titles trimmed, differ from each other and from the
\* archive's, and no record's url is the url another record of its body and
\* type is archived with
C5_Additive ==
    [][(current_summaries' # EmptyDict /\ load_ok'
            /\ DisjointTrimmedKeys(current_summaries', archiveFile.data)
            /\ DisjointUrls(current_summaries', archiveFile.data))
          => DocCount(historical_archive')
                 = DocCount(archiveFile.data) + DocCount(current_summaries')]_vars

\* two minutes with urls of their own merged into an archive that held
\* one record
C5_Witness ==
    /\ op = "main" /\ load_ok
    /\ new_docs = 2
    /\ DOMAIN current_summaries = {"Planning Commission"}
    /\ Len(current_summaries["Planning Commission"]["minutes"]) = 2
    /\ DocCount(archiveFile.data) = 3

\* every record of every collection of old is a record of the same
\* collection of new
Keeps(old, new) ==
    \A c \in Collections(old) :
        /\ c[1] \in DOMAIN new
        /\ \A i \in 1..Len(old[c[1]][c[2]]) :
               \E j \in 1..Len(new[c[1]][c[2]]) : new[c[1]][c[2]][j] = old[c[1]][c[2]][i]

\* C2: a run of main takes nothing out of the persisted archive: the file
\* stays readable, no body disappears and every record stays as it was
C2_AppendOnly ==
    [][archiveFile.state = "ok"
          => archiveFile'.state = "ok" /\ Keeps(archiveFile.data, archiveFile'.data)]_vars

\* C6: append_to_archive leaves every body that is in the archive and not in
\* the batch with the agendas and minutes it had, and keeps every record of
\* the batch's bodies as it was
C6_NonDestructive ==
    [][(current_summaries' # EmptyDict /\ load_ok')
          => \A merged \in {append_to_archive(current_summaries', archiveFile.data)} :
                /\ \A b \in (DOMAIN archiveFile.data) \ (DOMAIN current_summaries') :
                       /\ b \in DOMAIN merged.historical_archive
                       /\ merged.historical_archive[b] = archiveFile.data[b]
                /\ Keeps(archiveFile.data, merged.historical_archive)
                /\ Keeps(archiveFile.data, historical_archive')]_vars

\* a merge into the Planning Commission, which held a record, while the
\* City Council, not in the batch, held one too
C6_Witness ==
    /\ op = "main" /\ load_ok
    /\ new_docs = 1
    /\ DOMAIN current_summaries = {"Planning Commission"}
    /\ DOMAIN historical_archive = {"City Council", "Planning Commission"}
    /\ Len(BodyDocs(historical_archive["City Council"])) = 1
    /\ Len(BodyDocs(historical_archive["Planning Commission"])) = 2

\* the number of records of docs that are no duplicates of a record of
\* existing_docs
Fresh(docs, existing_docs) ==
    Cardinality({i \in 1..Len(docs) : ~is_duplicate_document(docs[i], existing_docs)})

\* C7: a merge extends a collection by no more records than the batch has
\* candidates that are no duplicates of a record already in it, counts what
\* it added and nothing else, and a body whose candidates are all duplicates
\* is not reported and stays as it was
C7_DuplicatesDiscarded ==
    [][(current_summaries' # EmptyDict /\ load_ok')
          => /\ new_docs' = DocCount(historical_archive') - DocCount(archiveFile.data)
             /\ \A b \in DOMAIN current_summaries' :
                  \A old \in {Get(archiveFile.data, b, EmptyBucket)} :
                      /\ \A t \in {"agendas", "minutes"} :
                             Len(historical_archive'[b][t]) - Len(old[t])
                                 <= Fresh(Get(current_summaries'[b], t, <<>>), old[t])
                      /\ (\A t \in {"agendas", "minutes"} :
                              Fresh(Get(current_summaries'[b], t, <<>>), old[t]) = 0)
                            => /\ b \notin updated_bodies'
                               /\ historical_archive'[b] = old]_vars

\* the Planning Commission's minutes hold one record, and a batch of two
\* candidates has added nothing: one has the record's title and date under
\* another url, the other has its url under another title and date
C7_Witness ==
    /\ op = "main" /\ load_ok
    /\ new_docs = 0 /\ updated_bodies = {}
    /\ DOMAIN current_summaries = {"Planning Commission"}
    /\ \E stored \in {archiveFile.data["Planning Commission"]["minutes"]} :
       \E docs \in {current_summaries["Planning Commission"]["minutes"]} :
          /\ Len(stored) = 1 /\ Len(docs) = 2
          /\ \E i, j \in 1..2 :
                /\ TitleDateMatch(docs[i], stored[1]) /\ docs[i]["url"] # stored[1]["url"]
                /\ UrlMatch(docs[j], stored[1]) /\ ~TitleDateMatch(docs[j], stored[1])

\* every record of the persisted archive
Archived == LET docs == AllDocs(archiveFile.data) IN {docs[i] : i \in 1..Len(docs)}

\* C4: every archived record carries a month and a year, taken from its
\* date when that parses as an ISO date and from the processing time (the
\* time in archived_date) otherwise, and no month file is the "Unknown" one
C4_MonthAndYear ==
    /\ \A r \in Archived :
          LET parsed == fromisoformat(Replace(Get(r, "date", <<>>), "Z",
                                              <<"+","0","0",":","0","0">>))
              processed == fromisoformat(r["archived_date"])
          IN  /\ "month" \in DOMAIN r
              /\ "year" \in DOMAIN r
              /\ r["month"] = strftime_B_Y(IF parsed.ok THEN parsed ELSE processed)
              /\ r["year"] = (IF parsed.ok THEN parsed.year ELSE processed.year)
    /\ MonthFileName(Unknown) \notin DOMAIN monthFiles

\* C8: is_duplicate_document returns true exactly when some record of the
\* list has the candidate's trimmed title and its date, or its non-empty
\* url, as exact strings, an absent field read as ""
C8_DuplicateRule ==
    dup_call.done
        => (dup_call.returned
              <=> \E i \in 1..Len(dup_call.existing_docs) :
                      SameDocument(dup_call.new_doc, dup_call.existing_docs[i]))

\* a padded title found a duplicate of the second record, after a first
\* record that differs from it in case only
C8_Witness ==
    /\ dup_call.done /\ dup_call.returned
    /\ dup_call.new_doc = [title |-> <<" ">> \o AB \o <<"\n">>, date |-> Jun1, url |-> UrlCD]
    /\ dup_call.existing_docs = << [title |-> Lower(AB), date |-> Jun1],
                                   [title |-> AB, date |-> Jun1, url |-> <<>>] >>

\* C9: in the persisted archive every body's agendas and minutes are in
\* non-increasing order of their dates compared as strings, an absent date
\* read as ""
C9_SortedByDate ==
    archiveFile.state = "ok"
        => \A c \in Collections(archiveFile.data) :
              \A docs \in {archiveFile.data[c[1]][c[2]]} :
                  \A i \in 1..(Len(docs) - 1) :
                      ~StrLess(Get(docs[i], "date", <<>>), Get(docs[i + 1], "date", <<>>))

\* the agenda of 2025-02-01 merged last and saved between the two others
C9_Witness ==
    /\ op = "main" /\ load_ok /\ result
    /\ new_docs = 1
    /\ DOMAIN current_summaries = {"Planning Commission"}
    /\ \E docs \in {current_summaries["Planning Commission"]["agendas"]} :
          Len(docs) = 1 /\ docs[1]["date"] = Feb1
    /\ \E stored \in {archiveFile.data["Planning Commission"]["agendas"]} :
          /\ Len(stored) = 3
          /\ stored[1]["date"] = Feb15 /\ stored[2]["date"] = Feb1 /\ stored[3]["date"] = Jan1

\* the document type of a collection
DocumentType ==
    [agendas |-> <<"a","g","e","n","d","a">>, minutes |-> <<"m","i","n","u","t","e","s">>]

\* the url a record must be archived with in a collection
ExpectedUrl(doc, type) ==
    IF Get(doc, "url", <<>>) # <<>> THEN doc["url"]
    ELSE UrlPrefix \o DocumentType[type] \o <<"s", "/">>
             \o Lower(Replace(Get(doc, "title", <<>>), " ", <<"_">>))
             \o <<".","p","d","f">>

\* r is doc as archived, whatever its url
ArchivedFrom(r, doc) ==
    \A k \in (DOMAIN doc) \ {"url"} : k \in DOMAIN r /\ r[k] = doc[k]

\* C10: when a merge has archived every record of its batch, each agenda of
\* the batch is among the body's agendas with the url it came with or, when
\* it came with none, with the placeholder built from the collection's type
\* and the title (.../agendas/pc_agenda.pdf for the title "PC Agenda")
C10_UrlBackfill ==
    (op = "main" /\ new_docs > 0 /\ new_docs = DocCount(current_summaries))
        => \A b \in DOMAIN current_summaries :
              LET docs == Get(current_summaries[b], "agendas", <<>>)
                  stored == historical_archive[b]["agendas"]
              IN  \A i \in 1..Len(docs) :
                      \E j \in 1..Len(stored) :
                          /\ ArchivedFrom(stored[j], docs[i])
                          /\ Get(stored[j], "url", <<>>) = ExpectedUrl(docs[i], "agendas")

\* the number of files a save of historical has to write and that do not
\* hold what it writes
Unwritten(historical, archive_file, stats_file, month_files) ==
    (IF archive_file = FileOf(historical) THEN 0 ELSE 1)
    + (IF stats_file = FileOf(calculate_archive_stats(historical)) THEN 0 ELSE 1)
    + Cardinality({f \in DOMAIN MonthlyWrites(historical) :
                      Get(month_files, f, NoFile) # MonthlyWrites(historical)[f]})

\* C11: when main saves, a file is left unwritten only by a write of its own
\* that raised, so that no more files are unwritten than writes have raised,
\* and an unwritten file makes main return False
C11_IndependentSaves ==
    [][(op' = "main" /\ new_docs' > 0)
          => \A unwritten \in {Unwritten(historical_archive', archiveFile', statsFile',
                                         monthFiles')} :
                /\ unwritten <= faults' - faults
                /\ unwritten > 0 => ~result']_vars

\* C12: whatever happens during a run of main, the archive file is left as it
\* was or holds the complete merged archive
C12_ArchiveFileWhole ==
    [][archiveFile' = archiveFile
          \/ (op' = "main" /\ new_docs' > 0 /\ archiveFile' = FileOf(historical_archive'))]_vars

\* both runs have ended
BothDone == \A p \in DOMAIN cycles : cycles[p].pc = "done"

\* p ended before q began
OneAfterTheOther(p, q) == p \in cycles[q].began_after

\* both loaded the archive before either saved, and p saved last
BothLoadedFirst(p, q) ==
    /\ cycles[p].began_after = {} /\ cycles[q].began_after = {}
    /\ q \in cycles[p].ended_after

\* C13: when both runs have ended and one ran after the other, the archive
\* file keeps every record either of them saved; when both loaded before
\* either saved and both added a record, the archive file is what the run
\* that saved last wrote, merged from the archive as it was before both
C13_LostUpdate ==
    BothDone
        => \A p, q \in DOMAIN cycles :
              /\ OneAfterTheOther(p, q)
                    => /\ Keeps(cycles[p].historical_archive, archiveFile.data)
                       /\ Keeps(cycles[q].historical_archive, archiveFile.data)
              /\ (BothLoadedFirst(p, q) /\ cycles[p].new_docs > 0 /\ cycles[q].new_docs > 0)
                    => /\ archiveFile.data = cycles[p].historical_archive
                       /\ DocCount(archiveFile.data) = cycles[p].new_docs

\* both runs loaded the empty archive, both saved a record, and the record of
\* the run that saved first is not in the archive file
C13_Witness ==
    /\ BothDone
    /\ BothLoadedFirst(2, 1)
    /\ cycles[1].new_docs = 1 /\ cycles[2].new_docs = 1
    /\ ~Keeps(cycles[1].historical_archive, archiveFile.data)

\* C14: a run of main that finds the batch file absent or the batch empty
\* returns True with no new document and writes nothing
C14_NothingToMerge ==
    [][(op' = "main" /\ faults' = faults
            /\ (batchFile'.state = "absent" \/ batchFile'.data = EmptyDict))
          => /\ result' = TRUE
             /\ new_docs' = 0
             /\ UNCHANGED <<archiveFile, statsFile, monthFiles, combinedFile>>]_vars

\* main has returned from an empty batch with an archive, its statistics and
\* a month file on disk
C14_Witness ==
    /\ op = "main"
    /\ batchFile = FileOf(EmptyDict)
    /\ current_summaries = EmptyDict
    /\ result /\ new_docs = 0
    /\ archiveFile.state = "ok" /\ DocCount(archiveFile.data) = 2
    /\ statsFile.state = "ok"
    /\ monthFiles # EmptyDict

\* C15: when the batch file holds a batch and main could not read it, main
\* does not return as it does for an absent batch, with True
C15_UnreadableBatchReported ==
    (op = "main"
        /\ batchFile.state = "ok" /\ batchFile.data # EmptyDict
        /\ current_summaries = EmptyDict)
      => ~result

\* C16: when main has merged a batch and returned True, the statistics file
\* and the month files are what a recomputation from the archive file
\* yields
C16_RegeneratedInFull ==
    (op = "main" /\ result /\ current_summaries # EmptyDict /\ archiveFile.state = "ok")
        => /\ statsFile = FileOf(calculate_archive_stats(archiveFile.data))
           /\ monthFiles = MonthlyWrites(archiveFile.data)

\* the elements of a sequence
Range(seq) == {seq[i] : i \in 1..Len(seq)}

\* the records of an archive in the collections of one type
PlacesOfType(archive, type) == {x \in Places(archive) : x[2] = type}

\* C17: the statistics saved with an archive count its agendas, its minutes
\* and their sum, count the records whose ai_generated is true, list each
\* month and each year of its records once and nothing else, and list each
\* of its bodies once and nothing else
C17_StatsOfArchive ==
    (archiveFile.state = "ok" /\ statsFile.state = "ok")
        => \A stats \in {statsFile.data} : \A archive \in {archiveFile.data} :
              /\ stats.total_agendas = Cardinality(PlacesOfType(archive, "agendas"))
              /\ stats.total_minutes = Cardinality(PlacesOfType(archive, "minutes"))
              /\ stats.total_documents = stats.total_agendas + stats.total_minutes
              /\ stats.ai_generated_count =
                     Cardinality({x \in Places(archive) :
                                     /\ "ai_generated" \in DOMAIN At(archive, x)
                                     /\ At(archive, x)["ai_generated"]})
              /\ stats.ai_generated_count <= stats.total_documents
              /\ Range(stats.months_covered) =
                     {At(archive, x)["month"] :
                         x \in {y \in Places(archive) : "month" \in DOMAIN At(archive, y)}}
              /\ Len(stats.months_covered) = Cardinality(Range(stats.months_covered))
              /\ Range(stats.years_covered) =
                     {StrInt(At(archive, x)["year"]) :
                         x \in {y \in Places(archive) : "year" \in DOMAIN At(archive, y)}}
              /\ Len(stats.years_covered) = Cardinality(Range(stats.years_covered))
              /\ Range(stats.government_bodies) = DOMAIN archive
              /\ stats.total_government_bodies = Len(stats.government_bodies)
              /\ stats.total_government_bodies = Cardinality(DOMAIN archive)

\* statistics of an archive of two bodies and three records, one of them
\* generated by the model, two with a month and one without
C17_Witness ==
    /\ archiveFile.state = "ok" /\ statsFile.state = "ok"
    /\ statsFile.data.total_government_bodies = 2
    /\ statsFile.data.total_documents = 3
    /\ statsFile.data.total_agendas = 2
    /\ statsFile.data.ai_generated_count = 1
    /\ Len(statsFile.data.months_covered) = 2
    /\ \E x \in Places(archiveFile.data) : "month" \notin DOMAIN At(archiveFile.data, x)

\* the key of the partition of a record: its month, or the default of
\* line 254 when it has none
PartitionKey(doc) == IF "month" \in DOMAIN doc THEN doc["month"] ELSE Unknown

\* the partition keys of the records of an archive
PartitionKeys(archive) == {PartitionKey(At(archive, x)) : x \in Places(archive)}

\* the partition saved under a key
Partition(key) == Get(monthFiles, MonthFileName(key), NoFile)

\* the places of a record in the partitions of an archive
PartitionPlaces(archive, doc) ==
    {kx \in UNION {{<<key, x>> : x \in Places(Partition(key).data)} :
                       key \in PartitionKeys(archive)} :
        At(Partition(kx[1]).data, kx[2]) = doc}

\* one sequence holds its records in the order another holds them
InOrderOf(part, whole) ==
    \A i \in 1..Len(part) : \A j \in 1..Len(part) :
        i < j => \E k \in 1..Len(whole) : \E l \in 1..Len(whole) :
                    k < l /\ whole[k] = part[i] /\ whole[l] = part[j]

\* C18: the partitions saved with an archive hold every record of the
\* archive once, in the partition of its month under its body and its type,
\* hold no other record, keep the archive's order within a body and type,
\* and hold as many records as the archive
C18_LosslessPartition ==
    archiveFile.state = "ok"
        => \A archive \in {archiveFile.data} :
              /\ \A key \in PartitionKeys(archive) : Partition(key).state = "ok"
              /\ \A x \in Places(archive) :
                    \A kxs \in {PartitionPlaces(archive, At(archive, x))} :
                        /\ Cardinality(kxs) = 1
                        /\ \A kx \in kxs :
                              /\ kx[1] = PartitionKey(At(archive, x))
                              /\ kx[2][1] = x[1]
                              /\ kx[2][2] = x[2]
              /\ \A key \in PartitionKeys(archive) :
                    \A y \in Places(Partition(key).data) :
                        \E x \in Places(archive) :
                            /\ x[1] = y[1] /\ x[2] = y[2]
                            /\ At(archive, x) = At(Partition(key).data, y)
              /\ \A key \in PartitionKeys(archive) :
                    \A b \in DOMAIN Partition(key).data :
                        /\ InOrderOf(Partition(key).data[b]["agendas"], archive[b]["agendas"])
                        /\ InOrderOf(Partition(key).data[b]["minutes"], archive[b]["minutes"])
              /\ Cardinality(UNION {{<<key, y>> : y \in Places(Partition(key).data)} :
                                       key \in PartitionKeys(archive)})
                     = Cardinality(Places(archive))

\* partitions of an archive of three records: two agendas of one body in
\* the partition of their month, in the archive's order, and a record
\* without a month in the partition of the default key
C18_Witness ==
    /\ archiveFile.state = "ok"
    /\ Cardinality(Places(archiveFile.data)) = 3
    /\ Cardinality(PartitionKeys(archiveFile.data)) = 2
    /\ Unknown \in PartitionKeys(archiveFile.data)
    /\ Cardinality(Places(Partition(Unknown).data)) = 1
    /\ \E key \in PartitionKeys(archiveFile.data) :
          \E b \in DOMAIN Partition(key).data :
              /\ Len(Partition(key).data[b]["agendas"]) = 2
              /\ Partition(key).data[b]["agendas"] = archiveFile.data[b]["agendas"]

\* C19: main never ends by raising: whatever was raised on the way, it has
\* returned True or False
C19_NothingEscapes == op \in {"idle", "main"} /\ result \in BOOLEAN

\* main has returned False after line 127 raised on a malformed batch, an
\* archive being saved already
C19_Witness ==
    /\ op = "main" /\ ~result
    /\ MergeRaises(current_summaries)
    /\ archiveFile.state = "ok"
    /\ DocCount(archiveFile.data) = 1

\* what main returns after a full success, line 329
FullSuccess == TRUE

\* what main returns when the merge itself failed, line 339
MergeFailure == FALSE

\* C20: when main has merged at least one new document and the save did
\* not write everything, what main returns is neither what it returns after
\* a full success nor what it returns when the merge itself failed
C20_PartialSuccess ==
    (op = "main" /\ new_docs > 0
        /\ Unwritten(historical_archive, archiveFile, statsFile, monthFiles) > 0)
        => result # FullSuccess /\ result # MergeFailure

\* the batch and the archive append_to_archive was called on
CalledOn == [current |-> batchFile.data, historical |-> archiveFile.data]

\* every body of an archive has its two collections
BothKeys(historical) ==
    \A b \in DOMAIN historical : {"agendas", "minutes"} \subseteq DOMAIN historical[b]

\* a record that lacks one of title, date and url
Malformed(doc) == ~({"title", "date", "url"} \subseteq DOMAIN doc)

\* a batch without its malformed records
WellFormedOnly(current) ==
    [b \in DOMAIN current |->
        [t \in DOMAIN current[b] |-> SelectSeq(current[b][t], LAMBDA d : ~Malformed(d))]]

\* a record with the empty string for each of title, date and url it lacks
Filled(doc) ==
    [f \in (DOMAIN doc) \cup {"title", "date", "url"} |-> Get(doc, f, <<>>)]

\* a batch with every record filled
FilledBatch(current) ==
    [b \in DOMAIN current |->
        [t \in DOMAIN current[b] |->
            [i \in 1..Len(current[b][t]) |-> Filled(current[b][t][i])]]]

\* the records of an archive that a call added, by body, type and summary
AddedTo(archive) ==
    {<<x[1], x[2], At(archive, x)["summary"]>> :
        x \in {y \in Places(archive) : At(archive, y)["summary"] # OldSummary}}

\* the records of an archive that a call added from the well-formed records
\* of a batch
AddedWellFormed(archive, current) ==
    {<<x[1], x[2], At(archive, x)>> :
        x \in {y \in Places(archive) :
                  \E z \in Places(current) :
                      /\ ~Malformed(At(current, z))
                      /\ At(current, z)["summary"] = At(archive, y)["summary"]}}

\* no well-formed record of the batch matches, by the Dedup Matcher's rule,
\* a malformed record that stands before it in its collection, as archived
NoMatchWithMalformed(current) ==
    \A b \in DOMAIN current : \A t \in DOMAIN current[b] :
        \A i \in 1..Len(current[b][t]) : \A j \in 1..Len(current[b][t]) :
            (j < i /\ ~Malformed(current[b][t][i]) /\ Malformed(current[b][t][j]))
                => ~SameDocument(current[b][t][i],
                                 prepare_document_for_archive(current[b][t][j], b))

\* C21 as stated: append_to_archive returns, and the well-formed records
\* of the batch are archived or discarded as they would be without the
\* malformed records
C21_MalformedAbsent ==
    (op # "idle" /\ BothKeys(CalledOn.historical))
        => /\ op = "append_to_archive"
           /\ AddedWellFormed(historical_archive, CalledOn.current)
                  = AddedWellFormed(
                        append_to_archive(WellFormedOnly(CalledOn.current),
                                          CalledOn.historical).historical_archive,
                        CalledOn.current)

\* C21: append_to_archive returns; it archives the records it would archive
\* were every missing title, date and url the empty string; and when no
\* well-formed record matches a malformed record before it, the well-formed
\* records are archived or discarded as they would be without the malformed
\* records
C21_MalformedProceeds ==
    (op # "idle" /\ BothKeys(CalledOn.historical))
        => /\ op = "append_to_archive"
           /\ AddedTo(historical_archive)
                  = AddedTo(append_to_archive(FilledBatch(CalledOn.current),
                                              CalledOn.historical).historical_archive)
           /\ NoMatchWithMalformed(CalledOn.current)
                 => AddedWellFormed(historical_archive, CalledOn.current)
                        = AddedWellFormed(
                              append_to_archive(WellFormedOnly(CalledOn.current),
                                                CalledOn.historical).historical_archive,
                              CalledOn.current)

\* a record without title and date is discarded as the duplicate of the
\* archive's record with empty title and date, and the well-formed record
\* after it is archived
C21_Witness ==
    /\ op = "append_to_archive"
    /\ DOMAIN CalledOn.current = {"Planning Commission"}
    /\ \E docs \in {Get(CalledOn.current["Planning Commission"], "agendas", <<>>)} :
          /\ Len(docs) = 2
          /\ DOMAIN docs[1] = {"url", "summary"}
          /\ ~Malformed(docs[2])
    /\ "Planning Commission" \in DOMAIN CalledOn.historical
    /\ BothKeys(CalledOn.historical)
    /\ CalledOn.historical["Planning Commission"]["agendas"][1]["title"] = <<>>
    /\ AddedTo(historical_archive) = {<<"Planning Commission", "agendas", Summaries[2]>>}

\* a batch or an archive with the empty collection for each key a body lacks
WithBothKeys(mapping) ==
    [b \in DOMAIN mapping |->
        [t \in (DOMAIN mapping[b]) \cup {"agendas", "minutes"} |->
            Get(mapping[b], t, <<>>)]]

\* C22: when a body of the batch or of the archive lacks one of its two
\* collections, append_to_archive returns, and it archives what it would
\* archive were the missing collection empty
C22_MissingKeysRecovered ==
    (op # "idle" /\ (~BothKeys(CalledOn.current) \/ ~BothKeys(CalledOn.historical)))
        => /\ op = "append_to_archive"
           /\ AddedTo(historical_archive)
                  = AddedTo(append_to_archive(WithBothKeys(CalledOn.current),
                                              WithBothKeys(CalledOn.historical))
                                .historical_archive)

\* a record whose title and date are empty or absent
NoTitleNoDate(doc) == Get(doc, "title", <<>>) = <<>> /\ Get(doc, "date", <<>>) = <<>>

\* a record whose title, date and url are empty or absent
AllEmpty(doc) == NoTitleNoDate(doc) /\ Get(doc, "url", <<>>) = <<>>

\* C23: is_duplicate_document returns false for a candidate whose title,
\* date and url are all empty or absent, whatever the collection holds
C23_EmptyNeverDuplicate ==
    (dup_call.done /\ AllEmpty(dup_call.new_doc)) => ~dup_call.returned

\* C24: a collection that held at most one record without title and date
\* before append_to_archive holds at most one after it: a candidate without
\* title and date is not added to a collection that has such a record,
\* whatever its url
C24_EmptyTitleDateDuplicates ==
    op = "append_to_archive"
        => \A b \in DOMAIN historical_archive : \A t \in DOMAIN historical_archive[b] :
              Cardinality({i \in 1..Len(historical_archive[b][t]) :
                              NoTitleNoDate(historical_archive[b][t][i])}) <= 1

\* two candidates without title and date, the first with a url and the
\* second without, for an empty collection: the first is added, the second
\* is not
C24_Witness ==
    /\ op = "append_to_archive"
    /\ CalledOn.historical = EmptyDict
    /\ DOMAIN CalledOn.current = {"Planning Commission"}
    /\ \E docs \in {Get(CalledOn.current["Planning Commission"], "agendas", <<>>)} :
          /\ Len(docs) = 2
          /\ NoTitleNoDate(docs[1]) /\ Get(docs[1], "url", <<>>) = UrlAB
          /\ AllEmpty(docs[2])
    /\ AddedTo(historical_archive) = {<<"Planning Commission", "agendas", Summaries[1]>>}

\* one sequence begins with another
StartsWith(whole, part) ==
    /\ Len(part) <= Len(whole)
    /\ \A i \in 1..Len(part) : whole[i] = part[i]

\* C25: after append_to_archive the batch is as it was, none of its records
\* decorated, and the archive is the one it was called on with records of
\* the batch appended: every collection begins with the records it had, in
\* their order, and every body it had is still there
C25_OnlyTheMergerWrites ==
    op = "append_to_archive"
        => /\ current_summaries = CalledOn.current
           /\ \A x \in Places(current_summaries) :
                 /\ DOMAIN At(current_summaries, x)
                        \cap {"archived_date", "historical", "month", "year"} = {}
                 /\ DOMAIN At(current_summaries, x) = DOMAIN At(CalledOn.current, x)
           /\ DOMAIN CalledOn.historical \subseteq DOMAIN historical_archive
           /\ DOMAIN historical_archive
                  \subseteq (DOMAIN CalledOn.historical) \cup (DOMAIN CalledOn.current)
           /\ \A b \in DOMAIN CalledOn.historical : \A t \in DOMAIN CalledOn.historical[b] :
                 /\ t \in DOMAIN historical_archive[b]
                 /\ StartsWith(historical_archive[b][t], CalledOn.historical[b][t])
           /\ \A x \in Places(historical_archive) :
                 \/ /\ x[1] \in DOMAIN CalledOn.historical
                    /\ x[3] <= Len(Get(CalledOn.historical[x[1]], x[2], <<>>))
                 \/ \E y \in Places(CalledOn.current) :
                       /\ y[1] = x[1] /\ y[2] = x[2]
                       /\ At(historical_archive, x)["summary"]
                              = At(CalledOn.current, y)["summary"]

\* a record without date and url is archived behind the record the
\* collection had: the archived copy has a url, the batch's record has none
C25_Witness ==
    /\ op = "append_to_archive"
    /\ DOMAIN CalledOn.current = {"Planning Commission"}
    /\ "Planning Commission" \in DOMAIN CalledOn.historical
    /\ BothKeys(CalledOn.historical)
    /\ Len(CalledOn.historical["Planning Commission"]["agendas"]) = 1
    /\ \E docs \in {Get(current_summaries["Planning Commission"], "agendas", <<>>)} :
          /\ Len(docs) = 1
          /\ DOMAIN docs[1] = {"title", "summary"}
    /\ \E stored \in {historical_archive["Planning Commission"]["agendas"]} :
          /\ Len(stored) = 2
          /\ stored[2]["summary"] = Summaries[1]
          /\ {"url", "archived_date", "historical"} \subseteq DOMAIN stored[2]

\* the number of records of a collection of an archive, none when the body
\* or the collection is not there
LenAt(archive, b, t) == IF b \in DOMAIN archive THEN Len(Get(archive[b], t, <<>>)) ELSE 0

\* C26: new_documents_added is the number of records the archive has gained,
\* updated_bodies are the bodies of which a collection has grown, and every
\* added record has historical true and an archived_date
C26_ResultsAgree ==
    op = "append_to_archive"
        => /\ new_docs = Cardinality(Places(historical_archive))
                             - Cardinality(Places(CalledOn.historical))
           /\ updated_bodies =
                  {b \in DOMAIN historical_archive :
                      \E t \in {"agendas", "minutes"} :
                          LenAt(historical_archive, b, t) > LenAt(CalledOn.historical, b, t)}
           /\ \A x \in Places(historical_archive) :
                 x[3] > LenAt(CalledOn.historical, x[1], x[2])
                     => /\ {"historical", "archived_date"}
                               \subseteq DOMAIN At(historical_archive, x)
                        /\ At(historical_archive, x)["historical"] = TRUE
                        /\ At(historical_archive, x)["archived_date"] = isoformat(clock)

\* a batch of two bodies: the record of one is a duplicate, the record of
\* the other is added, and only the other body is reported
C26_Witness ==
    /\ op = "append_to_archive"
    /\ DOMAIN CalledOn.current = {"City Council", "Planning Commission"}
    /\ Cardinality(Places(CalledOn.current)) = 2
    /\ Cardinality(Places(CalledOn.historical)) = 1
    /\ new_docs = 1
    /\ updated_bodies = {"City Council"}
    /\ AddedTo(historical_archive) = {<<"City Council", "agendas", Summaries[4]>>}

\* the invocations of a call that raised
Raises(calls) == {i \in 1..Len(calls) : calls[i].kind = "raise"}

\* C27: the wrapped function is invoked at most max_retries times and only
\* after every earlier invocation raised; the wrapper returns what the
\* invocation that did not raise returned; the wait after the k-th failed
\* invocation, when another one follows, is delay * 2^(k-1); and when
\* max_retries invocations have raised, one alert is sent and the last
\* exception is raised again
C27_RetryContract ==
    retry.pc # "idle"
        => /\ Len(retry.calls) <= retry.max_retries
           /\ \A i \in 1..Len(retry.calls) - 1 : retry.calls[i].kind = "raise"
           /\ retry.pc = "loop" => Raises(retry.calls) = 1..Len(retry.calls)
           /\ retry.pc = "returned"
                 => \/ /\ retry.calls # <<>>
                       /\ retry.calls[Len(retry.calls)].kind = "return"
                       /\ retry.returned = retry.calls[Len(retry.calls)].value
                    \/ /\ retry.max_retries = 0
                       /\ retry.calls = <<>>
                       /\ retry.returned = None
           /\ Len(retry.waits) = Cardinality(Raises(retry.calls))
                                     - (IF retry.pc = "raised" THEN 1 ELSE 0)
           /\ \A k \in 1..Len(retry.waits) : retry.waits[k] = retry.delay * (2 ^ (k - 1))
           /\ retry.pc = "raised"
                 => /\ Raises(retry.calls) = 1..retry.max_retries
                    /\ retry.alerts = 1
                    /\ retry.error = retry.calls[Len(retry.calls)].error
           /\ retry.pc # "raised" => retry.alerts = 0

\* three invocations have raised, the last one another exception than the
\* first: two waits, one alert, the last exception
C27_Witness ==
    /\ retry.pc = "raised"
    /\ retry.max_retries = 3
    /\ retry.delay = 30
    /\ retry.waits = <<30, 60>>
    /\ retry.calls[1].error = "ConnectionError"
    /\ retry.error = "ValueError"

\* C28: the steps of a run start in the order fetch, summarize, website,
\* archive, email, each one after the one before it has returned; after a
\* step has raised no later step of the run starts and the job returns
\* None; the scheduler never stops, and waits with a next run to come
C28_PipelineOrder ==
    /\ StartsWith(StepOrder, job.started)
    /\ StartsWith(job.started, job.finished)
    /\ Len(job.started) - Len(job.finished) \in {0, 1}
    /\ job.pc \notin {"waiting", "crashed"}
          => /\ job.started = job.finished
             /\ job.pc = StepOrder[Len(job.finished) + 1]
    /\ Len(job.started) > Len(job.finished)
          => /\ job.pc = "waiting"
             /\ job.returned = None
    /\ job.pc # "crashed"
    /\ (job.pc = "waiting" /\ job.runs < MaxRuns) => ENABLED JobStart

\* the second run, started after the first one failed, has failed in its
\* third step: the fourth and fifth have not started and the scheduler
\* waits
C28_Witness ==
    /\ job.runs = 2
    /\ job.failures = 2
    /\ job.pc = "waiting"
    /\ job.started = <<"fetch", "summarize", "website">>
    /\ job.finished = <<"fetch", "summarize">>
    /\ job.returned = None

\* C29: when the report of a run says the archive step succeeded, main of
\* the archive returned True in that run
C29_ArchiveStepReported ==
    (job.pc = "waiting" /\ job.returned # None
        /\ job.returned.value.steps["archive"])
        => job.results["archive"] = Value(TRUE)

\* the number of documents of the run so far for which call_openai_api was
\* invoked
RECURSIVE InvokedCount(_)
InvokedCount(summaries) ==
    IF summaries = <<>> THEN 0
    ELSE InvokedCount(Tail(summaries)) + (IF Head(summaries).invoked THEN 1 ELSE 0)

\* C30: in a run of summarize_all_documents the number of summaries flagged
\* ai_generated and the number of documents for which call_openai_api is
\* invoked never exceed max_api_calls, and a document met with the limit
\* reached gets a fallback summary
C30_BudgetRespected ==
    summ.pc \in {"loop", "done"}
        => /\ AiCount(summ.summaries) <= summ.max_api_calls
           /\ InvokedCount(summ.summaries) <= summ.max_api_calls
           /\ \A k \in 1..Len(summ.summaries) :
                 summ.summaries[k].limit_reached
                     => /\ ~summ.summaries[k].ai_generated
                        /\ summ.summaries[k].model_used = "fallback"

====
